---- MODULE Spec2Model ----
(***************************************************************************)
(* png-creator: the PixelCanvas (a mutable grid of optional colour values  *)
(* with fill and scale operations) and the PNGCreator (signature, IHDR,    *)
(* IDAT and IEND chunks with CRC-32) as a state machine.                   *)
(*                                                                         *)
(* A JavaScript value is a record [t, n, h, s]: t is its kind, n the       *)
(* integer part of a number, h = 1 when the number is n + 0.5 (the         *)
(* non-integers the model uses) and h = 2 for NaN, s the text of a string. *)
(***************************************************************************)
EXTENDS Integers, Sequences, FiniteSets, TLC

VARIABLES
    width,          \* PixelCanvas.#width
    height,         \* PixelCanvas.#height
    pixelMap,       \* PixelCanvas.#pixelMap: columns of cells, cell (x,y) = pixelMap[x+1][y+1]
    lastUsedColor,  \* PixelCanvas.#lastUsedColor
    backgroundColor,\* PixelCanvas.#backgroundColor
    crc32Table,     \* PNGCreator.#crc32Table (empty until the first checksum)
    call,           \* the last call made: its name and arguments
    err,            \* "" when the last call returned, else the class of the error it threw
    out,            \* the bytes the last call returned (<<>> when it returned none)
    zlibCalls,      \* the buffers the last call gave to zlib.deflateSync, in order
    pre,            \* the canvas as it was when the last call started
    suppliedColor,  \* the colour resolved by the latest fill that returned and supplied one
    nOps,           \* number of calls made so far
    heap,           \* the map arrays made so far, each a reference a caller may hold
    pixelMapRef     \* the array of heap that PixelCanvas.#pixelMap refers to

vars == <<width, height, pixelMap, lastUsedColor, backgroundColor, crc32Table,
          call, err, out, zlibCalls, pre, suppliedColor, nOps, heap, pixelMapRef>>

canvasVars == <<width, height, pixelMap, lastUsedColor, backgroundColor>>

----------------------------------------------------------------------------
(* Bounds of the model *)

MaxDim == 2
MaxOps == 2
MaxSeqOps == 3
MaxCreates == 2

----------------------------------------------------------------------------
(* JavaScript values *)

Num(k) == [t |-> "number", n |-> k, h |-> 0, s |-> ""]
Half(k) == [t |-> "number", n |-> k, h |-> 1, s |-> ""]
NaN == [t |-> "number", n |-> 0, h |-> 2, s |-> ""]
Str(name) == [t |-> "string", n |-> 0, h |-> 0, s |-> name]
False == [t |-> "boolean", n |-> 0, h |-> 0, s |-> ""]
Null == [t |-> "null", n |-> 0, h |-> 0, s |-> ""]
Undefined == [t |-> "undefined", n |-> 0, h |-> 0, s |-> ""]

IsInteger(v) == v.t = "number" /\ v.h = 0

\* typeof v
TypeOf(v) == IF v.t = "null" THEN "object" ELSE v.t

\* ToNumber(v) is NaN: every comparison with it is false
IsNaN(v) == v.t \in {"undefined", "string"} \/ v = NaN

\* v < k and v > k for an integer k, with JavaScript's conversion of v to a number
JsLt(v, k) == ~IsNaN(v) /\ v.n < k
JsGt(v, k) == ~IsNaN(v) /\ (IF v.h = 1 THEN v.n >= k ELSE v.n > k)

\* ToInt32(v) for the values the model uses, all of them inside 32 bits: NaN
\* becomes 0 and a fraction is truncated towards 0
ToInt32(v) == IF IsNaN(v) THEN 0
              ELSE IF v.h = 1 /\ v.n < 0 THEN v.n + 1 ELSE v.n

----------------------------------------------------------------------------
(* png.types.ts *)

VALID_COLOR_VALUE_RANGE == [min |-> 0, max |-> 16777215]

COLORS ==
       "aliceblue" :> 15792383
    @@ "antiquewhite" :> 16444375
    @@ "aqua" :> 65535
    @@ "aquamarine" :> 8388564
    @@ "azure" :> 15794175
    @@ "beige" :> 16119260
    @@ "bisque" :> 16770244
    @@ "black" :> 0
    @@ "blanchedalmond" :> 16772045
    @@ "blue" :> 255
    @@ "blueviolet" :> 9055202
    @@ "brown" :> 10824234
    @@ "burlywood" :> 14596231
    @@ "cadetblue" :> 6266528
    @@ "chartreuse" :> 8388352
    @@ "chocolate" :> 13789470
    @@ "coral" :> 16744272
    @@ "cornflowerblue" :> 6591981
    @@ "cornsilk" :> 16775388
    @@ "crimson" :> 14423100
    @@ "cyan" :> 65535
    @@ "darkblue" :> 139
    @@ "darkcyan" :> 35723
    @@ "darkgoldenrod" :> 12092939
    @@ "darkgray" :> 11119017
    @@ "darkgreen" :> 25600
    @@ "darkgrey" :> 11119017
    @@ "darkkhaki" :> 12433259
    @@ "darkmagenta" :> 9109643
    @@ "darkolivegreen" :> 5597999
    @@ "darkorange" :> 16747520
    @@ "darkorchid" :> 10040012
    @@ "darkred" :> 9109504
    @@ "darksalmon" :> 15308410
    @@ "darkseagreen" :> 9419919
    @@ "darkslateblue" :> 4734347
    @@ "darkslategray" :> 3100495
    @@ "darkslategrey" :> 3100495
    @@ "darkturquoise" :> 52945
    @@ "darkviolet" :> 9699539
    @@ "deeppink" :> 16716947
    @@ "deepskyblue" :> 49151
    @@ "dimgray" :> 6908265
    @@ "dimgrey" :> 6908265
    @@ "dodgerblue" :> 2003199
    @@ "firebrick" :> 11674146
    @@ "floralwhite" :> 16775920
    @@ "forestgreen" :> 2263842
    @@ "fuchsia" :> 16711935
    @@ "gainsboro" :> 14474460
    @@ "ghostwhite" :> 16316671
    @@ "gold" :> 16766720
    @@ "goldenrod" :> 14329120
    @@ "gray" :> 8421504
    @@ "green" :> 32768
    @@ "greenyellow" :> 11403055
    @@ "grey" :> 8421504
    @@ "honeydew" :> 15794160
    @@ "hotpink" :> 16738740
    @@ "indianred" :> 13458524
    @@ "indigo" :> 4915330
    @@ "ivory" :> 16777200
    @@ "khaki" :> 15787660
    @@ "lavender" :> 15132410
    @@ "lavenderblush" :> 16773365
    @@ "lawngreen" :> 8190976
    @@ "lemonchiffon" :> 16775885
    @@ "lightblue" :> 11393254
    @@ "lightcoral" :> 15761536
    @@ "lightcyan" :> 14745599
    @@ "lightgoldenrodyellow" :> 16448210
    @@ "lightgray" :> 13882323
    @@ "lightgreen" :> 9498256
    @@ "lightgrey" :> 13882323
    @@ "lightpink" :> 16758465
    @@ "lightsalmon" :> 16752762
    @@ "lightseagreen" :> 2142890
    @@ "lightskyblue" :> 8900346
    @@ "lightslategray" :> 7833753
    @@ "lightslategrey" :> 7833753
    @@ "lightsteelblue" :> 11584734
    @@ "lightyellow" :> 16777184
    @@ "lime" :> 65280
    @@ "limegreen" :> 3329330
    @@ "linen" :> 16445670
    @@ "magenta" :> 16711935
    @@ "maroon" :> 8388608
    @@ "mediumaquamarine" :> 6737322
    @@ "mediumblue" :> 205
    @@ "mediumorchid" :> 12211667
    @@ "mediumpurple" :> 9662683
    @@ "mediumseagreen" :> 3978097
    @@ "mediumslateblue" :> 8087790
    @@ "mediumspringgreen" :> 64154
    @@ "mediumturquoise" :> 4772300
    @@ "mediumvioletred" :> 13047173
    @@ "midnightblue" :> 1644912
    @@ "mintcream" :> 16121850
    @@ "mistyrose" :> 16770273
    @@ "moccasin" :> 16770229
    @@ "navajowhite" :> 16768685
    @@ "navy" :> 128
    @@ "oldlace" :> 16643558
    @@ "olive" :> 8421376
    @@ "olivedrab" :> 7048739
    @@ "orange" :> 16753920
    @@ "orangered" :> 16729344
    @@ "orchid" :> 14315734
    @@ "palegoldenrod" :> 15657130
    @@ "palegreen" :> 10025880
    @@ "paleturquoise" :> 11529966
    @@ "palevioletred" :> 14381203
    @@ "papayawhip" :> 16773077
    @@ "peachpuff" :> 16767673
    @@ "peru" :> 13468991
    @@ "pink" :> 16761035
    @@ "plum" :> 14524637
    @@ "powderblue" :> 11591910
    @@ "purple" :> 8388736
    @@ "rebeccapurple" :> 6697881
    @@ "red" :> 16711680
    @@ "rosybrown" :> 12357519
    @@ "royalblue" :> 4286945
    @@ "saddlebrown" :> 9127187
    @@ "salmon" :> 16416882
    @@ "sandybrown" :> 16032864
    @@ "seagreen" :> 3050327
    @@ "seashell" :> 16774638
    @@ "sienna" :> 10506797
    @@ "silver" :> 12632256
    @@ "skyblue" :> 8900331
    @@ "slateblue" :> 6970061
    @@ "slategray" :> 7372944
    @@ "slategrey" :> 7372944
    @@ "snow" :> 16775930
    @@ "springgreen" :> 65407
    @@ "steelblue" :> 4620980
    @@ "tan" :> 13808780
    @@ "teal" :> 32896
    @@ "thistle" :> 14204888
    @@ "tomato" :> 16737095
    @@ "turquoise" :> 4251856
    @@ "violet" :> 15631086
    @@ "wheat" :> 16113331
    @@ "white" :> 16777215
    @@ "whitesmoke" :> 16119285
    @@ "yellow" :> 16776960
    @@ "yellowgreen" :> 10145074

----------------------------------------------------------------------------
(* validation.ts: each helper yields "" or the class of the error it throws *)

throwIfNotNumber(value) == IF TypeOf(value) # "number" THEN "TypeError" ELSE ""

throwIfNegative(value) == IF JsLt(value, 0) THEN "RangeError" ELSE ""

throwIfNotInKeys(value, object) ==
    IF value.s \notin DOMAIN object THEN "ReferenceError" ELSE ""

throwIfOutOfRange(value, range) ==
    IF JsLt(value, range.min) \/ JsGt(value, range.max) THEN "RangeError" ELSE ""

throwIfNotInteger(value) == IF ~IsInteger(value) THEN "TypeError" ELSE ""

\* the first error of a sequence of checks made in order
RECURSIVE FirstError(_)
FirstError(checks) ==
    IF checks = <<>> THEN ""
    ELSE IF Head(checks) # "" THEN Head(checks)
    ELSE FirstError(Tail(checks))

----------------------------------------------------------------------------
(* pixelCanvas.ts *)

initPixelMap(w, h) == [x \in 1..w |-> [y \in 1..h |-> Null]]

\* #validateColor: [err, val]
validateColor(color) ==
    IF TypeOf(color) = "string"
    THEN IF throwIfNotInKeys(color, COLORS) # ""
         THEN [err |-> throwIfNotInKeys(color, COLORS), val |-> Undefined]
         ELSE [err |-> "", val |-> Num(COLORS[color.s])]
    ELSE LET e == FirstError(<<throwIfNotNumber(color),
                               throwIfOutOfRange(color, VALID_COLOR_VALUE_RANGE)>>)
         IN [err |-> e, val |-> IF e = "" THEN color ELSE Undefined]

\* color !== undefined ? this.#validateColor(color) : this.#lastUsedColor
currentColorOf(color, cursor) ==
    IF color # Undefined THEN validateColor(color) ELSE [err |-> "", val |-> cursor]

\* map[x]![y] = c. map[x] is undefined unless x is an index of map, and the
\* assignment then throws; a y that is no array index adds a property to the
\* column and changes no cell; a y past the end lengthens the column.
WriteCell(map, x, y, c) ==
    IF ~(IsInteger(x) /\ x.n >= 0 /\ x.n < Len(map))
    THEN [err |-> "TypeError", map |-> map]
    ELSE IF ~(IsInteger(y) /\ y.n >= 0)
    THEN [err |-> "", map |-> map]
    ELSE LET col == map[x.n + 1]
             newCol == [j \in 1..(IF y.n + 1 > Len(col) THEN y.n + 1 ELSE Len(col)) |->
                          IF j = y.n + 1 THEN c
                          ELSE IF j <= Len(col) THEN col[j] ELSE Undefined]
         IN [err |-> "", map |-> [map EXCEPT ![x.n + 1] = newCol]]

\* the assignments of a loop, made in order until one throws
RECURSIVE WriteAll(_, _)
WriteAll(map, writes) ==
    IF writes = <<>> THEN [err |-> "", map |-> map]
    ELSE IF Len(writes) = 1
    THEN WriteCell(map, writes[1][1], writes[1][2], writes[1][3])
    ELSE LET half == Len(writes) \div 2
             r == WriteAll(map, SubSeq(writes, 1, half))
         IN IF r.err # "" THEN r
            ELSE WriteAll(r.map, SubSeq(writes, half + 1, Len(writes)))

\* a canvas as a record
Canvas(w, h, map, cursor, bg) ==
    [width |-> w, height |-> h, pixelMap |-> map, lastUsedColor |-> cursor,
     backgroundColor |-> bg]

\* the first error of the range checks of a list of coordinates
RangeErrors(values, max) ==
    FirstError([k \in 1..Len(values) |-> throwIfOutOfRange(values[k], [min |-> 0, max |-> max])])

\* setPixel resolving the colour and moving the cursor before the range checks
setPixelCursorFirst(cv, x, y, color) ==
    LET e == FirstError(<<throwIfOutOfRange(x, [min |-> 0, max |-> cv.width - 1]),
                          throwIfOutOfRange(y, [min |-> 0, max |-> cv.height - 1])>>)
        cc == currentColorOf(color, cv.lastUsedColor)
        wr == WriteCell(cv.pixelMap, x, y, cc.val)
    IN IF cc.err # "" THEN [err |-> cc.err, canvas |-> cv]
       ELSE IF e # "" THEN [err |-> e, canvas |-> [cv EXCEPT !.lastUsedColor = cc.val]]
       ELSE IF wr.err # "" THEN [err |-> wr.err, canvas |-> [cv EXCEPT !.pixelMap = wr.map]]
       ELSE [err |-> "", canvas |-> [cv EXCEPT !.pixelMap = wr.map, !.lastUsedColor = cc.val]]

\* each operation maps a canvas to [err, canvas]: the canvas as the call leaves it
setPixel(cv, x, y, color) ==
    LET e == FirstError(<<throwIfOutOfRange(x, [min |-> 0, max |-> cv.width - 1]),
                          throwIfOutOfRange(y, [min |-> 0, max |-> cv.height - 1])>>)
        cc == currentColorOf(color, cv.lastUsedColor)
        wr == WriteCell(cv.pixelMap, x, y, cc.val)
    IN IF e # "" THEN [err |-> e, canvas |-> cv]
       ELSE IF cc.err # "" THEN [err |-> cc.err, canvas |-> cv]
       ELSE IF wr.err # "" THEN [err |-> wr.err, canvas |-> [cv EXCEPT !.pixelMap = wr.map]]
       ELSE [err |-> "", canvas |-> [cv EXCEPT !.pixelMap = wr.map, !.lastUsedColor = cc.val]]

\* setPixels returning at once when a list is empty
setPixelsSkippingEmpty(cv, xValues, yValues, color) ==
    LET e == FirstError(<<RangeErrors(xValues, cv.width - 1),
                          RangeErrors(yValues, cv.height - 1)>>)
        cc == currentColorOf(color, cv.lastUsedColor)
        writes == [k \in 1..(Len(xValues) * Len(yValues)) |->
                     <<xValues[((k - 1) \div Len(yValues)) + 1],
                       yValues[((k - 1) % Len(yValues)) + 1], cc.val>>]
        wr == WriteAll(cv.pixelMap, writes)
    IN IF xValues = <<>> \/ yValues = <<>> THEN [err |-> "", canvas |-> cv]
       ELSE IF e # "" THEN [err |-> e, canvas |-> cv]
       ELSE IF cc.err # "" THEN [err |-> cc.err, canvas |-> cv]
       ELSE IF wr.err # "" THEN [err |-> wr.err, canvas |-> [cv EXCEPT !.pixelMap = wr.map]]
       ELSE [err |-> "", canvas |-> [cv EXCEPT !.pixelMap = wr.map, !.lastUsedColor = cc.val]]

setPixels(cv, xValues, yValues, color) ==
    LET e == FirstError(<<RangeErrors(xValues, cv.width - 1),
                          RangeErrors(yValues, cv.height - 1)>>)
        cc == currentColorOf(color, cv.lastUsedColor)
        writes == [k \in 1..(Len(xValues) * Len(yValues)) |->
                     <<xValues[((k - 1) \div Len(yValues)) + 1],
                       yValues[((k - 1) % Len(yValues)) + 1], cc.val>>]
        wr == WriteAll(cv.pixelMap, writes)
    IN IF e # "" THEN [err |-> e, canvas |-> cv]
       ELSE IF cc.err # "" THEN [err |-> cc.err, canvas |-> cv]
       ELSE IF wr.err # "" THEN [err |-> wr.err, canvas |-> [cv EXCEPT !.pixelMap = wr.map]]
       ELSE [err |-> "", canvas |-> [cv EXCEPT !.pixelMap = wr.map, !.lastUsedColor = cc.val]]

setColumn(cv, x, color) ==
    LET e == throwIfOutOfRange(x, [min |-> 0, max |-> cv.width - 1])
        cc == currentColorOf(color, cv.lastUsedColor)
        wr == WriteAll(cv.pixelMap, [k \in 1..cv.height |-> <<x, Num(k - 1), cc.val>>])
    IN IF e # "" THEN [err |-> e, canvas |-> cv]
       ELSE IF cc.err # "" THEN [err |-> cc.err, canvas |-> cv]
       ELSE IF wr.err # "" THEN [err |-> wr.err, canvas |-> [cv EXCEPT !.pixelMap = wr.map]]
       ELSE [err |-> "", canvas |-> [cv EXCEPT !.pixelMap = wr.map, !.lastUsedColor = cc.val]]

\* setRow writing the column of the same number
setRowAsColumn(cv, y, color) == setColumn(cv, y, color)

setRow(cv, y, color) ==
    LET e == throwIfOutOfRange(y, [min |-> 0, max |-> cv.height - 1])
        cc == currentColorOf(color, cv.lastUsedColor)
        wr == WriteAll(cv.pixelMap, [k \in 1..cv.width |-> <<Num(k - 1), y, cc.val>>])
    IN IF e # "" THEN [err |-> e, canvas |-> cv]
       ELSE IF cc.err # "" THEN [err |-> cc.err, canvas |-> cv]
       ELSE IF wr.err # "" THEN [err |-> wr.err, canvas |-> [cv EXCEPT !.pixelMap = wr.map]]
       ELSE [err |-> "", canvas |-> [cv EXCEPT !.pixelMap = wr.map, !.lastUsedColor = cc.val]]

\* #scaleOnePixel copying the cell to the first cell of its block only
scaleOnePixelCorner(map, x, y, scale) ==
    <<<<Num(x * scale), Num(y * scale), map[x + 1][y + 1]>>>>

\* #scaleOnePixel with the inner loop starting at j = 1
scaleOnePixelFromSecondRow(map, x, y, scale) ==
    [k \in 1..(scale * (scale - 1)) |->
        <<Num(x * scale + ((k - 1) \div (scale - 1))),
          Num(y * scale + 1 + ((k - 1) % (scale - 1))), map[x + 1][y + 1]>>]

\* #scaleOnePixel: the assignments that copy cell (x,y) into its block of the new map
scaleOnePixel(map, x, y, scale) ==
    [k \in 1..(scale * scale) |->
        <<Num(x * scale + ((k - 1) \div scale)), Num(y * scale + ((k - 1) % scale)),
          map[x + 1][y + 1]>>]

RECURSIVE Concat(_)
Concat(seqs) ==
    IF seqs = <<>> THEN <<>>
    ELSE IF Len(seqs) = 1 THEN seqs[1]
    ELSE LET half == Len(seqs) \div 2
         IN Concat(SubSeq(seqs, 1, half)) \o Concat(SubSeq(seqs, half + 1, Len(seqs)))

\* setScale checking for an integer before the range
setScaleIntegerFirst(cv, scale) ==
    LET e == FirstError(<<throwIfNotNumber(scale), throwIfNotInteger(scale),
                          throwIfNegative(scale),
                          throwIfOutOfRange(scale, [min |-> 1, max |-> 100])>>)
        newWidth == cv.width * scale.n
        newHeight == cv.height * scale.n
        writes == Concat([k \in 1..(cv.width * cv.height) |->
                     scaleOnePixel(cv.pixelMap, (k - 1) \div cv.height, (k - 1) % cv.height,
                                   scale.n)])
        wr == WriteAll(initPixelMap(newWidth, newHeight), writes)
    IN IF e # "" THEN [err |-> e, canvas |-> cv]
       ELSE [err |-> wr.err,
             canvas |-> [cv EXCEPT !.width = newWidth, !.height = newHeight,
                                   !.pixelMap = wr.map]]

\* setScale putting the cursor back to black
setScaleResettingCursor(cv, scale) ==
    LET e == FirstError(<<throwIfNotNumber(scale), throwIfNegative(scale),
                          throwIfOutOfRange(scale, [min |-> 1, max |-> 100]),
                          throwIfNotInteger(scale)>>)
        newWidth == cv.width * scale.n
        newHeight == cv.height * scale.n
        writes == Concat([k \in 1..(cv.width * cv.height) |->
                     scaleOnePixel(cv.pixelMap, (k - 1) \div cv.height, (k - 1) % cv.height,
                                   scale.n)])
        wr == WriteAll(initPixelMap(newWidth, newHeight), writes)
    IN IF e # "" THEN [err |-> e, canvas |-> cv]
       ELSE [err |-> wr.err,
             canvas |-> [cv EXCEPT !.width = newWidth, !.height = newHeight,
                                   !.pixelMap = wr.map, !.lastUsedColor = Num(0)]]

setScale(cv, scale) ==
    LET e == FirstError(<<throwIfNotNumber(scale), throwIfNegative(scale),
                          throwIfOutOfRange(scale, [min |-> 1, max |-> 100]),
                          throwIfNotInteger(scale)>>)
        newWidth == cv.width * scale.n
        newHeight == cv.height * scale.n
        writes == Concat([k \in 1..(cv.width * cv.height) |->
                     scaleOnePixel(cv.pixelMap, (k - 1) \div cv.height, (k - 1) % cv.height,
                                   scale.n)])
        wr == WriteAll(initPixelMap(newWidth, newHeight), writes)
    IN IF e # "" THEN [err |-> e, canvas |-> cv]
       ELSE [err |-> wr.err,
             canvas |-> [cv EXCEPT !.width = newWidth, !.height = newHeight,
                                   !.pixelMap = wr.map]]

\* the fields of a PixelCanvas as the class initialises them, before the body of
\* the constructor
FieldInitializers == Canvas(16, 16, initPixelMap(16, 16), Num(0), Num(0))

\* new Array(n) throws RangeError unless n is an integer from 0; initPixelMap makes
\* the columns only when there is one to make
initPixelMapError(w, h) ==
    IF ~(IsInteger(w) /\ w.n >= 0) THEN "RangeError"
    ELSE IF w.n > 0 /\ ~(IsInteger(h) /\ h.n >= 0) THEN "RangeError"
    ELSE ""

\* #validateInitialPixelMap comparing no length
validateInitialPixelMapLoose(map, w, h) == ""

\* #validateInitialPixelMap: pixelMap.length !== width, then column.length !== height
\* for each column
validateInitialPixelMap(map, w, h) ==
    IF Num(Len(map)) # w THEN "RangeError"
    ELSE IF \E x \in 1..Len(map) : Num(Len(map[x])) # h THEN "RangeError"
    ELSE ""

\* the constructor given options: [err, canvas]. given says whether options.pixelMap
\* is there, map is that array. A constructor that throws leaves no object, and
\* canvas is then the initialised fields.
constructor(w, h, bg, given, map) ==
    LET color == validateColor(bg)
        e == FirstError(<<throwIfNotNumber(w), throwIfNegative(w),
                          throwIfNotNumber(h), throwIfNegative(h),
                          IF given THEN validateInitialPixelMap(map, w, h)
                          ELSE initPixelMapError(w, h),
                          color.err>>)
    IN IF e # "" THEN [err |-> e, canvas |-> FieldInitializers]
       ELSE [err |-> "",
             canvas |-> Canvas(w.n, h.n, IF given THEN map ELSE initPixelMap(w.n, h.n),
                               Num(0), color.val)]

\* the array #pixelMap refers to after the constructor, made being the number of
\* arrays the caller made: options.pixelMap itself, or the array of initPixelMap
pixelMapRefOfNew(given, made) == IF given THEN made ELSE made + 1

----------------------------------------------------------------------------
(* 32-bit integer operations of JavaScript. A number that may not fit a     *)
(* signed 32-bit integer is a pair of 16-bit words [hi, lo] standing for     *)
(* hi * 65536 + lo with lo in 0..65535: hi is in 0..65535 for an unsigned    *)
(* 32-bit value and in -32768..32767 for a signed one.                       *)

Pow2(k) == 2 ^ k

Word(hi, lo) == [hi |-> hi, lo |-> lo]

\* the pair of an integer of the model
ToWord(k) == Word(k \div 65536, k % 65536)

\* ToUint32
ToUint32(a) == Word(a.hi % 65536, a.lo)

\* ToInt32 of an unsigned value
Signed32(u) == Word(IF u.hi >= 32768 THEN u.hi - 65536 ELSE u.hi, u.lo)

\* exclusive or of two naturals, bit by bit
RECURSIVE BitXor(_, _)
BitXor(a, b) ==
    IF a = 0 THEN b
    ELSE IF b = 0 THEN a
    ELSE (((a % 2) + (b % 2)) % 2) + 2 * BitXor(a \div 2, b \div 2)

\* the exclusive or of every two bytes, and of two 16-bit words byte by byte
\* (bytes a and b are at XorBytes[a + 1][b + 1]; \o makes each row a tuple)
XorBytes == [a \in 1..256 |-> [b \in 1..256 |-> BitXor(a - 1, b - 1)] \o <<>>] \o <<>>

Xor16(a, b) ==
    XorBytes[(a \div 256) + 1][(b \div 256) + 1] * 256 + XorBytes[(a % 256) + 1][(b % 256) + 1]

\* a ^ b: the operands as 32 bits, the result signed
Xor(a, b) ==
    Signed32(Word(Xor16(ToUint32(a).hi, ToUint32(b).hi), Xor16(a.lo, b.lo)))

\* a >>> k, for k in 0..16
Ushr(a, k) ==
    LET u == ToUint32(a)
    IN Word(u.hi \div Pow2(k), (u.hi % Pow2(k)) * Pow2(16 - k) + (u.lo \div Pow2(k)))

\* a & 0xff and a & 1
AndFF(a) == a.lo % 256
And1(a) == a.lo % 2

\* ~a
Not(a) == Word(-a.hi - 1, 65535 - a.lo)

----------------------------------------------------------------------------
(* Buffers are sequences of bytes *)

\* writeUInt32BE(value) of a pair of words: [err, bytes]
writeUInt32BE(value) ==
    IF value.hi < 0 \/ value.hi > 65535
    THEN [err |-> "RangeError", bytes |-> <<>>]
    ELSE [err |-> "",
          bytes |-> <<value.hi \div 256, value.hi % 256, value.lo \div 256,
                      value.lo % 256>>]

\* writeUInt8(value): [err, bytes]
writeUInt8(value) ==
    IF value < 0 \/ value > 255
    THEN [err |-> "RangeError", bytes |-> <<>>]
    ELSE [err |-> "", bytes |-> <<value>>]

\* Buffer.from(chunkType): the ASCII codes of the chunk's name
ChunkTypeBuffer ==
    [IHDR |-> <<73, 72, 68, 82>>, IDAT |-> <<73, 68, 65, 84>>, IEND |-> <<73, 69, 78, 68>>]

----------------------------------------------------------------------------
(* png.helper.ts *)

COLOR_TYPES ==
    [GRAYSCALE |-> 0, TRUE_COLOR |-> 2, INDEXED_COLOR |-> 3, GRAYSCALE_ALPHA |-> 4,
     TRUE_COLOR_ALPHA |-> 6]

COLOR_TYPE_BYTES == (0 :> 1) @@ (2 :> 3) @@ (3 :> 1) @@ (4 :> 2) @@ (6 :> 4)

throwIfInvalidColorValue(colorValue) ==
    FirstError(<<throwIfNegative(colorValue),
                 throwIfOutOfRange(colorValue, VALID_COLOR_VALUE_RANGE)>>)

\* (colorValue >> k) & 0xff
ShiftByte(colorValue, k) == (ToInt32(colorValue) \div Pow2(k)) % 256

\* createTrueColorPixelBuffer writing blue first
createTrueColorPixelBufferBlueFirst(colorValue) ==
    IF throwIfInvalidColorValue(colorValue) # ""
    THEN [err |-> throwIfInvalidColorValue(colorValue), bytes |-> <<>>]
    ELSE [err |-> "",
          bytes |-> <<ShiftByte(colorValue, 0), ShiftByte(colorValue, 8),
                      ShiftByte(colorValue, 16)>>]

createTrueColorPixelBuffer(colorValue) ==
    IF throwIfInvalidColorValue(colorValue) # ""
    THEN [err |-> throwIfInvalidColorValue(colorValue), bytes |-> <<>>]
    ELSE [err |-> "",
          bytes |-> <<ShiftByte(colorValue, 16), ShiftByte(colorValue, 8),
                      ShiftByte(colorValue, 0)>>]

\* The colours 0xRRGGBB whose weighted sum is a whole number and a half and whose
\* sum in JavaScript's double-precision arithmetic, (0.299 * red + 0.587 * green)
\* + 0.114 * blue, is less than that: for 0x00240c the sum is 22.499999999999996.
\* For every other colour Math.round of the double-precision sum is the exact sum
\* rounded, halves upwards.
HalfRoundedDown ==
    {
     9228, 20590, 30289, 39046, 39988, 43535, 48745, 52292, 58444, 62712,
     64596, 75021, 81173, 87325, 140814, 149571, 159270, 163538, 168027, 168969,
     176784, 177726, 181273, 206607, 211817, 212759, 217969, 218911, 252276, 253939,
     255823, 258428, 261033, 278552, 281157, 292519, 293461, 294403, 297008, 301276,
     302218, 303160, 305765, 306707, 320674, 325163, 326826, 332041, 342461, 343403,
     350497, 389072, 410138, 411801, 412743, 416290, 421500, 422442, 425989, 430257,
     431199, 432141, 434746, 439956, 440898, 444445, 463627, 472384, 482083, 503144,
     514506, 516390, 518053, 518995, 519937, 520658, 522542, 523263, 529420, 554749,
     555691, 556633, 559238, 560180, 563727, 564448, 565390, 567995, 568937, 569879,
     572484, 578636, 582904, 584788, 587393, 641824, 663611, 683730, 684672, 685614,
     688219, 689161, 693429, 694371, 695313, 696034, 696976, 697918, 701465, 703128,
     704070, 707617, 729404, 745255, 748802, 756617, 757559, 765374, 769863, 778620,
     780283, 781225, 782167, 783109, 784772, 785714, 789045, 813653, 814595, 817200,
     818863, 821468, 822410, 823352, 825957, 826899, 827620, 831167, 832109, 833051,
     835656, 840866, 845355, 847018, 848902, 849623, 851507, 858385, 886540, 894355,
     895297, 906659, 909264, 911148, 936482, 946902, 948786, 951391, 957543, 960148,
     964637, 966300, 970789, 989971, 998728, 1011032, 1018847, 1019789, 1023336, 1024278,
     1033035, 1040129, 1042734, 1044397, 1045339, 1047002, 1047944, 1067126, 1068068, 1103096,
     1104980, 1107585, 1111132, 1112074, 1113737, 1127709, 1129372, 1130314, 1137408, 1147828,
     1148770, 1149712, 1157527, 1158469, 1161074, 1162016, 1173378, 1175983, 1177867, 1187350,
     1189955, 1198712, 1199654, 1203201, 1258353, 1259295, 1260958, 1265447, 1268994, 1276809,
     1277751, 1282019, 1285566, 1286508, 1287450, 1290055, 1312784, 1327693, 1331240, 1334787,
     1337392, 1359395, 1365547, 1367210, 1369094, 1369815, 1371699, 1373362, 1374304, 1375246,
     1375967, 1392544, 1397033, 1406732, 1411000, 1411942, 1412884, 1414547, 1415489, 1420699,
     1425188, 1429456, 1435608, 1437492, 1440097, 1444370, 1450522, 1456674, 1461884, 1466373,
     1495249, 1497133, 1497854, 1516315, 1539039, 1539981, 1540923, 1543528, 1544470, 1548738,
     1549680, 1550622, 1552285, 1553227, 1556774, 1559379, 1599622, 1600564, 1604111, 1612868,
     1627777, 1631324, 1632266, 1633929, 1636534, 1637476, 1647901, 1668020, 1668962, 1669904,
     1674172, 1675114, 1676777, 1677719, 1678661, 1681266, 1682208, 1682929, 1688360, 1696175,
     1698059, 1699722, 1702327, 1723393, 1728603, 1729545, 1736418, 1741849, 1750606, 1757700,
     1759363, 1766457, 1785639, 1797943, 1802211, 1804095, 1806700, 1812852, 1821609, 1847885,
     1854037, 1854979, 1861852, 1866341, 1867283, 1874156, 1875098, 1876040, 1879587, 1889286,
     1891891, 1893554, 1894496, 1896159, 1916283, 1932134, 1934739, 1940891, 1945380, 1947985,
     1949648, 1951532, 1957684, 1960289, 1961952, 1962894, 1970714, 1976866, 1985623, 1986565,
     1991775, 1995322, 2004079, 2005021, 2013778, 2014720, 2028687, 2036507, 2047869, 2052358,
     2083839, 2092817, 2107510, 2114604, 2124303, 2128571, 2129513, 2133060, 2138270, 2141817,
     2142759, 2146306, 2152458, 2176850, 2177792, 2183944, 2216367, 2218251, 2219914, 2222519,
     2224403, 2225124, 2227008, 2243585, 2248795, 2256610, 2257552, 2258494, 2262041, 2266309,
     2267251, 2268193, 2270798, 2276950, 2286649, 2290917, 2292801, 2307494, 2308436, 2309378,
     2317193, 2318135, 2330439, 2343685, 2346290, 2355047, 2365472, 2377776, 2381323, 2386533,
     2387475, 2391743, 2394348, 2395290, 2396232, 2399779, 2405931, 2409478, 2414688, 2425113,
     2436475, 2437417, 2447116, 2468177, 2477876, 2480481, 2482144, 2483086, 2484028, 2486633,
     2489238, 2515514, 2519782, 2520724, 2521666, 2524271, 2525213, 2529481, 2530423, 2531365,
     2533028, 2533970, 2534912, 2537517, 2538238, 2539180, 2548879, 2553368, 2555031, 2579423,
     2580365, 2583912, 2592669, 2597158, 2608520, 2613009, 2617277, 2634796, 2640948, 2644495,
     2648763, 2649705, 2650647, 2653252, 2657520, 2658462, 2659404, 2661067, 2662009, 2662951,
     2666498, 2668161, 2669103, 2672650, 2676918, 2703194, 2710288, 2721650, 2722592, 2731349,
     2734896, 2738443, 2740106, 2742711, 2745316, 2750747, 2763777, 2776802, 2778686, 2782954,
     2784838, 2787443, 2793595, 2798084, 2806841, 2811109, 2812993, 2815598, 2817261, 2827686,
     2842595, 2850631, 2854899, 2859388, 2860330, 2863877, 2870029, 2872634, 2875239, 2885664,
     2897026, 2901515, 2906725, 2912877, 2915482, 2919971, 2921634, 2926123, 2928728, 2930391,
     2932275, 2934880, 2948126, 2963761, 2983880, 2984822, 2985764, 2988369, 3033101, 3069071,
     3073560, 3075223, 3077828, 3079712, 3092742, 3094405, 3095347, 3104104, 3112861, 3113803,
     3117350, 3122560, 3123502, 3127049, 3133201, 3137469, 3139353, 3141958, 3154988, 3164687,
     3173444, 3186690, 3197110, 3198994, 3201599, 3210356, 3223386, 3224328, 3241842, 3242784,
     3247052, 3247994, 3250599, 3251541, 3252483, 3255088, 3292726, 3296994, 3302425, 3324428,
     3327033, 3331301, 3333185, 3335790, 3337453, 3339337, 3341942, 3357577, 3358519, 3362066,
     3366334, 3370823, 3375091, 3376033, 3376975, 3379580, 3380522, 3384069, 3385732, 3386674,
     3390221, 3395431, 3401583, 3404188, 3421707, 3427859, 3434732, 3435674, 3440163, 3447978,
     3448920, 3461224, 3463829, 3468318, 3472586, 3495315, 3496257, 3504072, 3505014, 3505956,
     3508561, 3510224, 3513771, 3514713, 3515655, 3518260, 3523470, 3565597, 3576959, 3577901,
     3589263, 3599904, 3601567, 3602509, 3604172, 3614597, 3633995, 3638263, 3640147, 3642752,
     3647241, 3648904, 3653393, 3657661, 3662150, 3663813, 3665697, 3666418, 3668302, 3683937,
     3693636, 3697904, 3701451, 3702393, 3706882, 3715639, 3719186, 3721791, 3723454, 3726059,
     3730548, 3743578, 3744520, 3750672, 3757545, 3759429, 3762034, 3768186, 3770791, 3772675,
     3775280, 3776943, 3778827, 3785700, 3787584, 3790189, 3803219, 3812918, 3827827, 3831374,
     3840131, 3841073, 3844620, 3853377, 3855982, 3857645, 3865681, 3881316, 3882258, 3887468,
     3891015, 3896225, 3900714, 3902377, 3906866, 3909471, 3911134, 3915623, 3924380, 3927927,
     3928869, 3930532, 3934805, 3935747, 3941899, 3948051, 3955866, 3960355, 3964623, 3968170,
     3969112, 3970054, 3987568, 3988510, 3992778, 3994662, 3997267, 4010297, 4041999, 4049814,
     4052419, 4056908, 4079637, 4092662, 4093604, 4094546, 4095488, 4097151, 4098093, 4103303,
     4104245, 4107792, 4144488, 4153245, 4177853, 4179737, 4182342, 4185889, 4186610, 4188494,
     4190157, 4191099, 4192762, 4204129, 4213828, 4221643, 4222585, 4223527, 4227074, 4231342,
     4232284, 4233226, 4234889, 4235831, 4241983, 4250740, 4256892, 4259497, 4261165, 4264712,
     4273469, 4277016, 4282226, 4283168, 4295472, 4307776, 4310381, 4312044, 4319138, 4323627,
     4326958, 4333110, 4339262, 4342809, 4351566, 4355834, 4356776, 4357718, 4359381, 4360323,
     4361265, 4364812, 4366475, 4370964, 4392751, 4401508, 4402450, 4406718, 4411207, 4415475,
     4424453, 4433210, 4441967, 4444572, 4448119, 4449061, 4450724, 4452608, 4453329, 4455213,
     4455934, 4476058, 4480547, 4484815, 4486699, 4489304, 4495456, 4504213, 4508702, 4512970,
     4514854, 4517459, 4519122, 4521006, 4521727, 4530489, 4544456, 4546340, 4548945, 4557702,
     4558644, 4562191, 4570006, 4572611, 4581368, 4583252, 4585857, 4599829, 4612854, 4614738,
     4617343, 4619006, 4623495, 4627984, 4634136, 4641009, 4642893, 4668227, 4674379, 4686683,
     4687625, 4696382, 4699929, 4702534, 4704197, 4706802, 4712233, 4714838, 4715780, 4717443,
     4738288, 4742777, 4747266, 4748929, 4751534, 4753418, 4756023, 4757686, 4759570, 4762175,
     4766443, 4770932, 4777084, 4779689, 4781573, 4783236, 4784904, 4791056, 4792719, 4793661,
     4797208, 4808570, 4811175, 4815664, 4820874, 4824421, 4825363, 4834120, 4836725, 4839330,
     4843819, 4845482, 4848087, 4850697, 4859454, 4862059, 4863001, 4868211, 4876968, 4878852,
     4879573, 4881457, 4887609, 4890214, 4896366, 4905123, 4931399, 4944645, 4948913, 4949855,
     4950797, 4953402, 4959554, 4991040, 5000739, 5008554, 5028894, 5033162, 5035046, 5037651,
     5039314, 5041198, 5041919, 5043803, 5045466, 5048076, 5050681, 5060380, 5069137, 5077894,
     5078836, 5082383, 5088535, 5097292, 5103444, 5106049, 5110538, 5120021, 5137535, 5138477,
     5158596, 5160480, 5161201, 5163085, 5167353, 5174447, 5176331, 5179662, 5188419, 5193629,
     5198118, 5206875, 5207817, 5212085, 5213027, 5213969, 5215632, 5216574, 5220121, 5221784,
     5257759, 5262027, 5262969, 5267458, 5275273, 5288519, 5291124, 5297276, 5299881, 5301765,
     5303428, 5304370, 5306033, 5307917, 5312911, 5317400, 5322610, 5323552, 5331367, 5332309,
     5335856, 5340124, 5341066, 5342008, 5344613, 5345555, 5350765, 5351707, 5359522, 5364011,
     5365674, 5367558, 5368279, 5370163, 5372768, 5399765, 5401649, 5405196, 5413953, 5429804,
     5438561, 5461290, 5470047, 5476199, 5489445, 5525199, 5529688, 5537503, 5541992, 5542934,
     5550749, 5553354, 5561390, 5563995, 5565658, 5566600, 5579630, 5580572, 5589329, 5593597,
     5598086, 5602575, 5604238, 5608727, 5611332, 5612995, 5614879, 5617484, 5621752, 5623636,
     5626241, 5629788, 5630730, 5632393, 5634998, 5640213, 5646365, 5648970, 5653238, 5655122,
     5657727, 5663879, 5666484, 5667426, 5668368, 5677125, 5683277, 5684940, 5687545, 5694639,
     5696523, 5700791, 5708611, 5723520, 5728009, 5732277, 5734161, 5734882, 5736766, 5738429,
     5742918, 5751675, 5756164, 5777009, 5777951, 5787650, 5791918, 5793802, 5795465, 5796407,
     5805164, 5806106, 5814863, 5817468, 5820073, 5828109, 5829772, 5830714, 5832377, 5837592,
     5856048, 5877109, 5879714, 5884203, 5885866, 5888471, 5890355, 5892018, 5892960, 5893902,
     5894623, 5896507, 5925388, 5929656, 5930598, 5933203, 5934145, 5958753, 5961358, 5975330,
     5985029, 6009637, 6013905, 6015789, 6016510, 6018394, 6048938, 6049880, 6057695, 6058637,
     6059579, 6062184, 6063126, 6069278, 6078035, 6099822, 6109521, 6118278, 6119220, 6122767,
     6131524, 6139339, 6141944, 6143828, 6146433, 6150922, 6152585, 6155190, 6156132, 6157074,
     6158737, 6159679, 6166557, 6168220, 6169162, 6177919, 6178861, 6186676, 6187618, 6188560,
     6192828, 6196375, 6197317, 6200864, 6201585, 6214831, 6216715, 6220983, 6222867, 6223588,
     6225472, 6226198, 6228803, 6238502, 6247259, 6248201, 6260505, 6271867, 6276356, 6278019,
     6280624, 6285113, 6307842, 6312110, 6316599, 6320867, 6322751, 6325356, 6331508, 6340265,
     6344754, 6366541, 6376240, 6380508, 6384997, 6398243, 6407942, 6410547, 6413152, 6414815,
     6440149, 6442033, 6450790, 6453395, 6468304, 6470188, 6478945, 6481550, 6485097, 6487702,
     6495522, 6510431, 6522735, 6523677, 6531492, 6534097, 6536702, 6547343, 6551832, 6570072,
     6578829, 6583318, 6584981, 6589470, 6592075, 6593738, 6598227, 6602495, 6606984, 6626166,
     6638470, 6642959, 6647227, 6651716, 6664020, 6666625, 6671114, 6676324, 6677266, 6678929,
     6679871, 6681534, 6684139, 6686749, 6688412, 6689354, 6698111, 6704263, 6706868, 6708752,
     6713020, 6714904, 6715625, 6717509, 6720114, 6721777, 6723661, 6732418, 6735023, 6736907,
     6741175, 6743059, 6743780, 6745664, 6747327, 6748269, 6749211, 6749932, 6757752, 6758694,
     6762241, 6768393, 6772661, 6774545, 6775266, 6777150, 6780697, 6785907, 6786849, 6796548,
     6798211, 6800816, 6809573, 6811457, 6814062, 6835849, 6860457, 6862341, 6864946, 6869214,
     6871098, 6896432, 6905189, 6913946, 6914888, 6918435, 6924587, 6933344, 6956073, 6965772,
     6973587, 6974529, 6990380, 6994648, 6999137, 7001742, 7005289, 7007894, 7010499, 7011441,
     7015714, 7025413, 7034170, 7042927, 7043869, 7049079, 7053568, 7056894, 7072024, 7073687,
     7076292, 7103510, 7115814, 7124571, 7127176, 7140422, 7153452, 7158662, 7163151, 7167419,
     7171908, 7178060, 7186817, 7191306, 7195574, 7227060, 7228944, 7235817, 7240306, 7241248,
     7257099, 7261367, 7263972, 7269403, 7272008, 7273671, 7282433, 7288585, 7295458, 7297342,
     7306099, 7316740, 7325497, 7331649, 7334254, 7335917, 7356983, 7365740, 7369287, 7378986,
     7388685, 7391290, 7393895, 7395558, 7402652, 7420892, 7425381, 7434138, 7438627, 7440290,
     7444779, 7449047, 7453536, 7466782, 7475323, 7476265, 7491174, 7493779, 7503478, 7507025,
     7512235, 7514840, 7525481, 7528086, 7530691, 7544663, 7545605, 7550815, 7559572, 7564061,
     7570213, 7572818, 7577086, 7578970, 7587727, 7592216, 7593879, 7596484, 7598368, 7599089,
     7600973, 7611398, 7619213, 7622760, 7623702, 7627970, 7629854, 7631517, 7632459, 7636006,
     7644763, 7647368, 7658009, 7660614, 7664882, 7666766, 7673644, 7683343, 7687611, 7689495,
     7692100, 7696368, 7698252, 7700857, 7702520, 7704404, 7705346, 7707009, 7711498, 7715766,
     7717650, 7720255, 7729012, 7735890, 7738495, 7742984, 7747252, 7749136, 7753404, 7756009,
     7757893, 7760498, 7761440, 7771139, 7777291, 7778954, 7781559, 7784164, 7788653, 7789595,
     7792200, 7793863, 7794805, 7796468, 7797410, 7802625, 7804288, 7805230, 7807835, 7808777,
     7813045, 7814929, 7815650, 7817534, 7821081, 7821802, 7826291, 7832443, 7836932, 7841200,
     7843084, 7845689, 7849957, 7851841, 7854446, 7856109, 7857993, 7860598, 7863203, 7864871,
     7866534, 7867476, 7868418, 7874570, 7876233, 7877175, 7881443, 7883327, 7884990, 7885932,
     7889479, 7892084, 7894689, 7895631, 7898236, 7899178, 7902725, 7904388, 7905330, 7908877,
     7911482, 7913145, 7914087, 7915750, 7922844, 7927333, 7928996, 7945573, 7954330, 7971123,
     7973728, 7986974, 7991242, 8013971, 8022728, 8024612, 8027217, 8042126, 8050883, 8084253,
     8096557, 8105314, 8107919, 8118560, 8120223, 8121165, 8122828, 8125433, 8143894, 8152651,
     8158803, 8167560, 8172049, 8180806, 8185074, 8186958, 8189563, 8191226, 8207803, 8212292,
     8216560, 8225538, 8237842, 8240447, 8242110, 8244715, 8249204, 8262234, 8276201, 8278085,
     8280690, 8286842, 8291331, 8293936, 8295599, 8297483, 8304356, 8306240, 8308845, 8322091,
     8331574, 8335842, 8337726, 8346483, 8359729, 8372033, 8374638, 8376301, 8384337, 8386942,
     8387884, 8406124, 8414881, 8419370, 8421033, 8425522, 8429790, 8434279, 8443036, 8447525,
     8449188, 8451072, 8451793, 8453677, 8460555, 8465765, 8474522, 8479011, 8487768, 8488710,
     8493920, 8495583, 8506224, 8507166, 8508829, 8511434, 8513318, 8515923, 8522801, 8534163,
     8540315, 8542920, 8544804, 8547409, 8549072, 8550956, 8553561, 8559713, 8562318, 8568470,
     8571075, 8572959, 8575564, 8584321, 8591199, 8592141, 8594746, 8599956, 8604445, 8608713,
     8611318, 8613202, 8615807, 8616749, 8625506, 8628111, 8638752, 8641357, 8643020, 8645625,
     8651782, 8653445, 8654387, 8663144, 8664086, 8668354, 8670238, 8672843, 8676390, 8677111,
     8678995, 8681600, 8683263, 8686089, 8687752, 8692241, 8696509, 8698393, 8700998, 8705266,
     8707150, 8709755, 8711418, 8713302, 8714244, 8715907, 8720180, 8723727, 8727995, 8729879,
     8732484, 8736752, 8738636, 8740299, 8741241, 8745730, 8751882, 8758034, 8759697, 8760639,
     8762302, 8764907, 8769396, 8775548, 8778153, 8780037, 8782426, 8783368, 8785031, 8789520,
     8796393, 8798277, 8800882, 8801824, 8802545, 8807034, 8809639, 8811523, 8813186, 8814128,
     8815791, 8817675, 8821943, 8824548, 8826432, 8829037, 8830700, 8835189, 8837794, 8842283,
     8846551, 8851766, 8854371, 8856034, 8856976, 8857918, 8861465, 8862186, 8866675, 8870222,
     8875432, 8878979, 8879921, 8883468, 8889620, 8892225, 8894830, 8896493, 8904529, 8907134,
     8908076, 8908797, 8909739, 8912344, 8939562, 8943109, 8951866, 8954471, 8967717, 8969380,
     8971985, 8974590, 8977416, 8994714, 8999203, 9007960, 9014112, 9022869, 9027358, 9031626,
     9036115, 9037778, 9039662, 9040383, 9042267, 9049145, 9054355, 9063112, 9067601, 9080847,
     9088662, 9091267, 9099303, 9104513, 9109002, 9124637, 9131510, 9133394, 9135999, 9152792,
     9159665, 9161549, 9193035, 9201792, 9205339, 9206281, 9218585, 9221190, 9222853, 9225458,
     9233494, 9234436, 9236099, 9238704, 9252676, 9256944, 9261433, 9265922, 9272074, 9274679,
     9276342, 9280831, 9285099, 9289588, 9298345, 9300229, 9301892, 9302834, 9304497, 9316585,
     9321074, 9329831, 9331715, 9334320, 9344740, 9352776, 9355381, 9357986, 9362475, 9366743,
     9368627, 9371232, 9381657, 9386867, 9395624, 9398229, 9400113, 9406265, 9415022, 9423779,
     9426384, 9440356, 9441298, 9446508, 9450055, 9455265, 9459754, 9463301, 9468511, 9469453,
     9474663, 9476326, 9487909, 9489572, 9492177, 9494782, 9497608, 9500213, 9501876, 9507091,
     9514906, 9519395, 9523663, 9525547, 9527210, 9528152, 9534304, 9543061, 9547550, 9551818,
     9553702, 9556307, 9559854, 9560575, 9562459, 9564122, 9565064, 9569337, 9583304, 9585188,
     9587793, 9592061, 9593945, 9596550, 9597492, 9601039, 9606249, 9608854, 9611459, 9615948,
     9619495, 9622100, 9623763, 9624705, 9629194, 9630857, 9633462, 9638677, 9643887, 9644829,
     9649097, 9651702, 9653586, 9656191, 9657133, 9657854, 9662343, 9666832, 9668495, 9672984,
     9677252, 9679857, 9681741, 9686009, 9693103, 9694987, 9700923, 9703528, 9704470, 9708738,
     9712285, 9713227, 9716774, 9717495, 9719379, 9721984, 9725531, 9726473, 9731683, 9738777,
     9740440, 9741382, 9743045, 9745650, 9753686, 9754628, 9756291, 9758896, 9770263, 9772868,
     9777136, 9779020, 9780683, 9781625, 9786114, 9787777, 9790382, 9792266, 9794871, 9796534,
     9798418, 9801023, 9805291, 9807175, 9809780, 9815932, 9818537, 9820421, 9822084, 9823026,
     9824689, 9826573, 9827294, 9829178, 9850023, 9854512, 9860664, 9869421, 9878178, 9882667,
     9886935, 9888819, 9891424, 9893087, 9894971, 9918421, 9920305, 9932609, 9935214, 9948460,
     9957217, 9959822, 9979946, 9988703, 10008101, 10014974, 10016858, 10039587, 10048344, 10061590,
     10067742, 10069405, 10072010, 10080046, 10082651, 10084314, 10085256, 10107985, 10112253, 10116742,
     10121231, 10122894, 10131651, 10133535, 10136140, 10140408, 10144897, 10149386, 10151049, 10153654,
     10155538, 10157201, 10171894, 10173778, 10176383, 10182535, 10199328, 10201933, 10206201, 10215179,
     10219447, 10222052, 10227267, 10233419, 10236966, 10242176, 10246665, 10252817, 10255422, 10261574,
     10270331, 10274820, 10279088, 10301817, 10306306, 10310574, 10312458, 10315063, 10325483, 10333519,
     10336124, 10338729, 10346765, 10348428, 10349370, 10351033, 10351975, 10353638, 10356248, 10370215,
     10372099, 10374704, 10378972, 10380856, 10383461, 10385124, 10387008, 10389613, 10395765, 10398370,
     10402859, 10407127, 10409011, 10411616, 10413279, 10415163, 10417768, 10419431, 10436008, 10438613,
     10440497, 10444044, 10457069, 10468652, 10470315, 10472920, 10477409, 10480014, 10487834, 10490439,
     10495649, 10499196, 10500138, 10503685, 10504406, 10506290, 10508895, 10512442, 10515047, 10523804,
     10528293, 10532561, 10534445, 10535166, 10537050, 10550296, 10559779, 10564047, 10565931, 10567594,
     10568536, 10574688, 10577293, 10580840, 10581782, 10586992, 10587934, 10589597, 10592202, 10600238,
     10602843, 10604506, 10605448, 10612542, 10615147, 10616089, 10619420, 10625572, 10628177, 10632445,
     10634329, 10636934, 10641423, 10643086, 10647575, 10649238, 10651843, 10653727, 10656332, 10657995,
     10660600, 10662484, 10665089, 10669578, 10671241, 10673846, 10675730, 10677393, 10678335, 10679998,
     10681882, 10685213, 10692086, 10693970, 10696575, 10697517, 10698238, 10702727, 10705332, 10706274,
     10707216, 10719520, 10722125, 10723788, 10726393, 10733487, 10734429, 10735371, 10737034, 10739639,
     10741523, 10742244, 10744128, 10746733, 10766857, 10775614, 10779161, 10786034, 10795012, 10796675,
     10799280, 10812526, 10826498, 10835255, 10850164, 10863410, 10894896, 10899164, 10903653, 10915957,
     10918562, 10926598, 10929203, 10931808, 10933471, 10941507, 10944112, 10958805, 10960689, 10986960,
     10988844, 10997601, 11000206, 11003753, 11006358, 11008963, 11014178, 11020330, 11023877, 11029087,
     11042333, 11048485, 11050148, 11052753, 11055358, 11063394, 11065999, 11070488, 11074756, 11088728,
     11097485, 11101974, 11108126, 11112394, 11116883, 11125640, 11130129, 11148369, 11157126, 11161615,
     11167767, 11170372, 11180071, 11182676, 11185281, 11189770, 11195922, 11197585, 11198527, 11200190,
     11202795, 11216767, 11222919, 11225524, 11227408, 11236165, 11240433, 11242317, 11251074, 11253679,
     11255563, 11259831, 11262436, 11264320, 11265983, 11266925, 11267867, 11268588, 11270472, 11277350,
     11282560, 11286107, 11287049, 11291317, 11293922, 11295806, 11299353, 11306226, 11315204, 11316867,
     11319472, 11327508, 11332718, 11346690, 11350958, 11352842, 11355447, 11359715, 11361599, 11364204,
     11370356, 11379113, 11380997, 11383602, 11387870, 11389754, 11392359, 11410599, 11412483, 11415088,
     11419356, 11421240, 11423845, 11429997, 11438754, 11443243, 11446790, 11449395, 11451058, 11452000,
     11453663, 11461699, 11464304, 11465246, 11465967, 11466909, 11478997, 11480881, 11484428, 11485149,
     11489638, 11492243, 11493185, 11504547, 11507152, 11509036, 11513304, 11517793, 11520398, 11526550,
     11529155, 11530097, 11531039, 11532702, 11533644, 11534370, 11539580, 11540522, 11544069, 11544790,
     11548337, 11549279, 11552826, 11558036, 11561583, 11562525, 11568677, 11570340, 11572945, 11575550,
     11580981, 11583586, 11586191, 11590680, 11594948, 11596832, 11597553, 11599437, 11607978, 11608920,
     11609862, 11615072, 11617677, 11621224, 11622166, 11623829, 11628318, 11632586, 11634470, 11637075,
     11641343, 11643227, 11645832, 11650321, 11651984, 11654589, 11659078, 11681807, 11686075, 11690564,
     11696716, 11705473, 11709962, 11714230, 11718719, 11745716, 11766777, 11775755, 11780023, 11782628,
     11788059, 11790664, 11792327, 11793269, 11794932, 11795874, 11814114, 11815998, 11835396, 11844153,
     11852910, 11859062, 11861667, 11866882, 11875639, 11884396, 11896700, 11899305, 11909946, 11912551,
     11914214, 11921308, 11925797, 11935280, 11944037, 11957283, 11958946, 11963435, 11967703, 11972192,
     11980949, 12012435, 12029228, 12033496, 12044137, 12046742, 12049347, 12057383, 12064261, 12078228,
     12082717, 12088869, 12095742, 12097626, 12106383, 12110872, 12115140, 12117024, 12117745, 12119629,
     12121292, 12123176, 12123897, 12129112, 12137869, 12142358, 12148510, 12151115, 12160814, 12163419,
     12166024, 12176665, 12179270, 12183538, 12185422, 12188027, 12197510, 12201999, 12206267, 12208151,
     12210756, 12216908, 12221176, 12225665, 12230154, 12234422, 12236306, 12238911, 12243179, 12245063,
     12265908, 12267792, 12274665, 12276549, 12279154, 12286969, 12295947, 12297610, 12300215, 12302820,
     12307309, 12308251, 12310856, 12312519, 12313461, 12315124, 12316066, 12321281, 12326491, 12327433,
     12334306, 12336190, 12339737, 12340458, 12344947, 12351099, 12355588, 12359856, 12361740, 12364345,
     12368613, 12373102, 12379254, 12381859, 12384464, 12385406, 12391342, 12394889, 12395831, 12400099,
     12401983, 12404588, 12408135, 12410740, 12419497, 12427533, 12430138, 12432743, 12434406, 12445989,
     12447652, 12450257, 12452867, 12455472, 12459740, 12461624, 12464229, 12465171, 12470381, 12472986,
     12477475, 12479138, 12483627, 12487895, 12489779, 12492384, 12498536, 12501141, 12505630, 12507293,
     12514387, 12521265, 12524812, 12530022, 12532627, 12533569, 12538779, 12543268, 12549420, 12551083,
     12553688, 12560782, 12561724, 12564329, 12566934, 12569539, 12576633, 12577575, 12579238, 12580180,
     12581843, 12582785, 12602909, 12615934, 12623970, 12626575, 12637216, 12639821, 12641484, 12644089,
     12662550, 12671307, 12690705, 12699462, 12705614, 12708219, 12709882, 12712708, 12722191, 12730948,
     12744194, 12745857, 12756498, 12759103, 12760766, 12763371, 12776617, 12778501, 12794857, 12799346,
     12814255, 12816139, 12823012, 12827501, 12840747, 12854498, 12865139, 12875780, 12877443, 12880048,
     12890689, 12893294, 12905598, 12906540, 12908203, 12924780, 12938026, 12944178, 12952935, 12961692,
     12966181, 12967844, 12969728, 12970449, 12972333, 12973054, 12974938, 12984421, 12993178, 12997667,
     13003819, 13007366, 13009971, 13012576, 13014239, 13024880, 13025822, 13027485, 13030090, 13034579,
     13038847, 13040731, 13045004, 13052819, 13061576, 13063460, 13066065, 13078369, 13080974, 13089731,
     13091615, 13094220, 13102977, 13113402, 13123101, 13131858, 13144162, 13146767, 13157408, 13160013,
     13161676, 13164281, 13169712, 13172317, 13181800, 13182742, 13187010, 13188894, 13191499, 13195046,
     13206408, 13210897, 13215165, 13217049, 13219654, 13223922, 13225806, 13228411, 13230074, 13231958,
     13232900, 13234563, 13237168, 13242383, 13246651, 13248535, 13251140, 13255408, 13257292, 13259897,
     13264386, 13266049, 13270538, 13276690, 13278353, 13279295, 13280958, 13283563, 13291599, 13294204,
     13296809, 13298693, 13301298, 13302961, 13306292, 13307234, 13308176, 13315049, 13316933, 13319538,
     13325690, 13330179, 13334447, 13336331, 13340599, 13343204, 13345088, 13347693, 13353845, 13356450,
     13360939, 13365207, 13374690, 13375632, 13376574, 13380121, 13385331, 13388878, 13395972, 13400240,
     13408276, 13410881, 13413486, 13415149, 13424848, 13425790, 13426732, 13428395, 13431000, 13436215,
     13444030, 13444972, 13448519, 13451124, 13453729, 13457276, 13458218, 13461765, 13464370, 13468638,
     13470522, 13473127, 13479279, 13481884, 13486373, 13488036, 13490641, 13492525, 13493246, 13494188,
     13495130, 13496072, 13496793, 13498677, 13504613, 13505555, 13510765, 13512428, 13513370, 13514312,
     13517859, 13519522, 13524011, 13527558, 13528279, 13530163, 13531826, 13532768, 13534431, 13541525,
     13545072, 13546014, 13547677, 13550282, 13554771, 13555713, 13559039, 13560923, 13563528, 13581768,
     13586257, 13607318, 13609923, 13617959, 13620564, 13623169, 13627658, 13652050, 13671448, 13678321,
     13680205, 13711691, 13724937, 13726600, 13737241, 13739846, 13741509, 13744114, 13753092, 13754755,
     13757360, 13771332, 13780089, 13784578, 13790730, 13794998, 13799487, 13803755, 13808244, 13817001,
     13818885, 13821490, 13823153, 13825037, 13825758, 13827642, 13839730, 13850371, 13852976, 13856523,
     13860791, 13863396, 13871432, 13874037, 13876642, 13881131, 13885399, 13887283, 13889888, 13900313,
     13918769, 13924921, 13933678, 13942435, 13945040, 13946924, 13958286, 13968711, 13973921, 13978410,
     13981957, 13990714, 13993319, 13994982, 14006565, 14008228, 14010833, 14013438, 14016264, 14018869,
     14020532, 14021474, 14023137, 14024079, 14033562, 14038051, 14042319, 14044203, 14046808, 14052960,
     14061717, 14066206, 14070474, 14072358, 14074963, 14079231, 14081115, 14083720, 14087267, 14088209,
     14089872, 14093203, 14101960, 14103844, 14106449, 14112601, 14124905, 14127510, 14130115, 14134604,
     14138151, 14140756, 14142419, 14143361, 14147850, 14149513, 14152118, 14154002, 14174847, 14187151,
     14200397, 14204665, 14220516, 14222184, 14223126, 14230941, 14231883, 14235430, 14236151, 14240640,
     14244187, 14245129, 14257433, 14260038, 14261701, 14264306, 14272342, 14273284, 14274947, 14277552,
     14285588, 14304770, 14317074, 14319679, 14323947, 14334588, 14337193, 14345229, 14347834, 14349497,
     14350439, 14352102, 14355433, 14357317, 14359922, 14360864, 14366074, 14368679, 14370563, 14373168,
     14374831, 14376715, 14380983, 14383588, 14388077, 14389019, 14391624, 14394229, 14395892, 14396834,
     14401323, 14404870, 14405591, 14407475, 14410080, 14411743, 14413627, 14416232, 14453870, 14467116,
     14471384, 14478478, 14484414, 14485356, 14486298, 14488903, 14493171, 14494113, 14497660, 14498602,
     14502149, 14504754, 14510906, 14513511, 14515174, 14525815, 14526757, 14528420, 14531025, 14533630,
     14535514, 14536456, 14539061, 14540724, 14541666, 14543329, 14544271, 14558243, 14567000, 14586398,
     14588061, 14590666, 14601307, 14603912, 14613611, 14619547, 14622152, 14623094, 14624036, 14626641,
     14628304, 14630188, 14632793, 14636340, 14638945, 14639887, 14641550, 14645097, 14647702, 14650307,
     14654796, 14658343, 14659064, 14660948, 14662611, 14663553, 14668042, 14672310, 14674194, 14675857,
     14676799, 14678462, 14690550, 14695039, 14705680, 14707343, 14717984, 14720589, 14724857, 14733835,
     14735498, 14740708, 14742592, 14745197, 14747586, 14748528, 14749470, 14751133, 14752075, 14755622,
     14756343, 14758227, 14759890, 14760832, 14761774, 14764379, 14765321, 14766984, 14771473, 14777625,
     14779288, 14780230, 14781893, 14784498, 14788987, 14789929, 14792534, 14793476, 14795139, 14797744,
     14804838, 14805780, 14807443, 14808385, 14810048, 14810990, 14820473, 14824962, 14831114, 14833719,
     14839871, 14841534, 14844139, 14852175, 14854780, 14857385, 14865421, 14868026, 14869689, 14870631,
     14872294, 14877509, 14880114, 14881056, 14881777, 14885324, 14886266, 14888871, 14889813, 14890755,
     14892418, 14893360, 14895023, 14896907, 14899512, 14901175, 14903780, 14908269, 14909211, 14911816,
     14913479, 14914421, 14916084, 14917026, 14921515, 14925062, 14925783, 14926725, 14927667, 14929330,
     14930272, 14931935, 14933819, 14936424, 14938087, 14939029, 14957269, 14959153, 14962700, 14971457,
     14974062, 14987308, 14988971, 14991576, 14998670, 15004822, 15007427, 15046949, 15051217, 15053822,
     15068952, 15078435, 15082703, 15086250, 15087192, 15093344, 15105648, 15106590, 15108253, 15110858,
     15118894, 15121499, 15124104, 15128593, 15133803, 15134745, 15136408, 15137350, 15160079, 15170499,
     15181140, 15183745, 15194386, 15196049, 15196991, 15198654, 15201259, 15210742, 15212626, 15215231,
     15216173, 15221383, 15224930, 15225872, 15232024, 15238176, 15240781, 15242444, 15245049, 15252143,
     15253085, 15254027, 15255690, 15258295, 15260900, 15262784, 15265389, 15267052, 15268936, 15285513,
     15300422, 15304690, 15313668, 15317936, 15331182, 15339723, 15340665, 15341607, 15345154, 15349422,
     15351306, 15352969, 15353911, 15355574, 15360063, 15361726, 15364331, 15372367, 15374972, 15376635,
     15377577, 15382066, 15385613, 15388218, 15389881, 15390823, 15392486, 15397917, 15400522, 15413552,
     15434613, 15437218, 15445254, 15447859, 15450464, 15452127, 15460163, 15462768, 15463710, 15465373,
     15469646, 15474856, 15476740, 15477461, 15478403, 15479345, 15482892, 15485497, 15491649, 15494254,
     15495917, 15505616, 15506558, 15507500, 15509163, 15511768, 15518862, 15519804, 15522409, 15525014,
     15527619, 15529503, 15531166, 15547743, 15567141, 15568804, 15571409, 15574014, 15582050, 15584655,
     15589144, 15593412, 15596017, 15598627, 15602895, 15603837, 15604779, 15606442, 15607384, 15608326,
     15613536, 15617083, 15620630, 15622293, 15625840, 15626782, 15628445, 15631050, 15635539, 15636481,
     15639086, 15641691, 15643354, 15644296, 15648785, 15653053, 15653995, 15654937, 15656600, 15657542,
     15659205, 15661810, 15667025, 15675782, 15680271, 15686423, 15690691, 15698727, 15701332, 15703937,
     15714578, 15716241, 15717183, 15718846, 15721451, 15726882, 15730934, 15731876, 15732818, 15733760,
     15735423, 15736365, 15737086, 15738970, 15740633, 15741575, 15742517, 15744180, 15745122, 15746064,
     15747727, 15752216, 15756484, 15758368, 15759089, 15760031, 15760973, 15762636, 15765241, 15769730,
     15772335, 15773277, 15774219, 15775882, 15778487, 15781092, 15782976, 15785581, 15787244, 15789128,
     15791733, 15793396, 15796006, 15805705, 15814462, 15820614, 15824882, 15833860, 15835523, 15838128,
     15846164, 15848769, 15851374, 15897769, 15908410, 15911015, 15924261, 15929255, 15933744, 15938012,
     15939896, 15942501, 15948653, 15954805, 15957410, 15961899, 15965446, 15968051, 15969714, 15970656,
     15972319, 15982960, 15983902, 15984623, 15985565, 15988170, 16027692, 16031960, 16045206, 16047811,
     16055847, 16058236, 16059178, 16062725, 16067935, 16071482, 16087333, 16088996, 16091601, 16094206,
     16099637, 16102242, 16104847, 16109336, 16113604, 16115488, 16116209, 16118093, 16140822, 16146974,
     16151242, 16161883, 16164488, 16175129, 16177734, 16186491, 16191485, 16195974, 16196916, 16200463,
     16202126, 16206615, 16210883, 16215372, 16218919, 16221524, 16223187, 16224129, 16228618, 16234770,
     16236433, 16237375, 16239038, 16241643, 16247074, 16248737, 16249679, 16251342, 16252284, 16281165,
     16285433, 16294411, 16298679, 16301284, 16309320, 16311925, 16313588, 16314530, 16320466, 16321408,
     16324955, 16325897, 16330165, 16332049, 16333712, 16334654, 16338201, 16340806, 16342469, 16345074,
     16353110, 16354052, 16355715, 16358320, 16362809, 16366356, 16368961, 16370624, 16371566, 16373229,
     16377718, 16380323, 16382928, 16394295, 16415356, 16417961, 16428602, 16431207, 16432870, 16444453,
     16448721, 16450389, 16451331, 16453936, 16458204, 16459146, 16460088, 16462693, 16463635, 16464356,
     16468845, 16474997, 16477602, 16482091, 16485638, 16486359, 16488243, 16489906, 16490848, 16492511,
     16499605, 16500547, 16503152, 16504094, 16505757, 16508362, 16513793, 16547884, 16552152, 16562793,
     16565398, 16568003, 16576039, 16577702, 16578644, 16580307, 16582917, 16583638, 16585522, 16587185,
     16588127, 16589069, 16591674, 16594279, 16601373, 16603036, 16607525, 16609188, 16611793, 16614398,
     16616282, 16617224, 16619829, 16622434, 16624097, 16625039, 16629528, 16633796, 16635680, 16636401,
     16638285, 16639948, 16641832, 16642553, 16644437, 16656525, 16660072, 16661014, 16671434, 16682075,
     16684680, 16695321, 16697926, 16699589, 16702194, 16706683, 16711172, 16712619, 16713561, 16714503,
     16716166, 16717108, 16720655, 16721376, 16722318, 16724923, 16725865, 16726807, 16729412, 16731075,
     16732959, 16735564, 16739111, 16739832, 16741716, 16743379, 16744321, 16748810, 16753078, 16754020,
     16754962, 16756625, 16757567, 16759230, 16761835, 16763719, 16766324, 16767266, 16768929, 16769871,
     16771534, 16772476, 16774139, 16775081
    }

\* Math.round(0.299 * red + 0.587 * green + 0.114 * blue): the exact sum in
\* thousandths, rounded as the double-precision sum rounds
convertTrueColorToGrayscale(colorValue) ==
    LET red == ShiftByte(colorValue, 16)
        green == ShiftByte(colorValue, 8)
        blue == ShiftByte(colorValue, 0)
        sum == 299 * red + 587 * green + 114 * blue
    IN IF sum % 1000 = 500 /\ (red * 65536 + green * 256 + blue) \in HalfRoundedDown
       THEN sum \div 1000
       ELSE (sum + 500) \div 1000

\* createGrayscalePixelBuffer without the range check
createGrayscalePixelBufferUnchecked(colorValue) ==
    [err |-> "", bytes |-> <<convertTrueColorToGrayscale(colorValue) % 256>>]

createGrayscalePixelBuffer(colorValue) ==
    IF throwIfInvalidColorValue(colorValue) # ""
    THEN [err |-> throwIfInvalidColorValue(colorValue), bytes |-> <<>>]
    ELSE [err |-> "", bytes |-> <<convertTrueColorToGrayscale(colorValue) % 256>>]

\* createAlphaPixelBuffer making every colour opaque
createAlphaPixelBufferOpaque(colorValue) ==
    IF throwIfInvalidColorValue(colorValue) # ""
    THEN [err |-> throwIfInvalidColorValue(colorValue), bytes |-> <<>>]
    ELSE [err |-> "", bytes |-> <<255>>]

\* createAlphaPixelBuffer with an alpha of 0 for every colour
createAlphaPixelBufferTransparent(colorValue) ==
    IF throwIfInvalidColorValue(colorValue) # ""
    THEN [err |-> throwIfInvalidColorValue(colorValue), bytes |-> <<>>]
    ELSE [err |-> "", bytes |-> <<0>>]

createAlphaPixelBuffer(colorValue) ==
    IF throwIfInvalidColorValue(colorValue) # ""
    THEN [err |-> throwIfInvalidColorValue(colorValue), bytes |-> <<>>]
    ELSE [err |-> "", bytes |-> IF colorValue # Num(0) THEN <<255>> ELSE <<0>>]

\* Buffer.concat of two results, the first error winning
Both(a, b) ==
    IF a.err # "" THEN a
    ELSE IF b.err # "" THEN b
    ELSE [err |-> "", bytes |-> a.bytes \o b.bytes]

\* createPixelBuffer without the alpha byte in mode 4
createPixelBufferGreyWithoutAlpha(colorValue, colorType) ==
    IF colorType \in {Num(COLOR_TYPES.GRAYSCALE), Num(COLOR_TYPES.GRAYSCALE_ALPHA)}
    THEN createGrayscalePixelBuffer(colorValue)
    ELSE IF colorType = Num(COLOR_TYPES.TRUE_COLOR)
    THEN createTrueColorPixelBuffer(colorValue)
    ELSE IF colorType = Num(COLOR_TYPES.TRUE_COLOR_ALPHA)
    THEN Both(createTrueColorPixelBuffer(colorValue), createAlphaPixelBuffer(colorValue))
    ELSE [err |-> "TypeError", bytes |-> <<>>]

\* createPixelBuffer encoding every mode it does not know as mode 2
createPixelBufferDefaulting(colorValue, colorType) ==
    IF colorType = Num(COLOR_TYPES.GRAYSCALE)
    THEN createGrayscalePixelBuffer(colorValue)
    ELSE IF colorType = Num(COLOR_TYPES.GRAYSCALE_ALPHA)
    THEN Both(createGrayscalePixelBuffer(colorValue), createAlphaPixelBuffer(colorValue))
    ELSE IF colorType = Num(COLOR_TYPES.TRUE_COLOR_ALPHA)
    THEN Both(createTrueColorPixelBuffer(colorValue), createAlphaPixelBuffer(colorValue))
    ELSE createTrueColorPixelBuffer(colorValue)

createPixelBuffer(colorValue, colorType) ==
    IF colorType = Num(COLOR_TYPES.GRAYSCALE)
    THEN createGrayscalePixelBuffer(colorValue)
    ELSE IF colorType = Num(COLOR_TYPES.GRAYSCALE_ALPHA)
    THEN Both(createGrayscalePixelBuffer(colorValue), createAlphaPixelBuffer(colorValue))
    ELSE IF colorType = Num(COLOR_TYPES.TRUE_COLOR)
    THEN createTrueColorPixelBuffer(colorValue)
    ELSE IF colorType = Num(COLOR_TYPES.TRUE_COLOR_ALPHA)
    THEN Both(createTrueColorPixelBuffer(colorValue), createAlphaPixelBuffer(colorValue))
    ELSE [err |-> "TypeError", bytes |-> <<>>]

----------------------------------------------------------------------------
(* zlib, the compressor the creator is given (PNGCreatorDependencies). The   *)
(* model's deflateSync writes a zlib stream of one stored block: the two     *)
(* header bytes, the block header with the length and its complement, the    *)
(* input, and the Adler-32 of the input.                                     *)

\* the loop of Adler-32 over the bytes from position st.i on; st is the loop's state
RECURSIVE Adler32Loop(_, _)
Adler32Loop(buffer, st) ==
    IF st.i > Len(buffer) THEN Word(st.b, st.a)
    ELSE Adler32Loop(buffer, [i |-> st.i + 1,
                              a |-> (st.a + buffer[st.i]) % 65521,
                              b |-> (st.b + ((st.a + buffer[st.i]) % 65521)) % 65521])

Adler32(buffer) == Adler32Loop(buffer, [i |-> 1, a |-> 1, b |-> 0])

deflateSync(buffer) ==
    LET len == Len(buffer)
        nlen == 65535 - len
    IN <<120, 1>> \o <<1, len % 256, len \div 256, nlen % 256, nlen \div 256>>
       \o buffer \o writeUInt32BE(Adler32(buffer)).bytes

----------------------------------------------------------------------------
(* pngCreator.ts *)

PNG_SIGNATURE == <<137, 80, 78, 71, 13, 10, 26, 10>>

IHDR_INDEXES ==
    [WIDTH |-> 0, HEIGHT |-> 4, BIT_DEPTH |-> 8, COLOR_TYPE |-> 9,
     COMPRESSION_METHOD |-> 10, FILTER_METHOD |-> 11, INTERLACE_METHOD |-> 12]

IHDR_BYTES_LENGTH == 13
CHUNK_BYTES_SIZE == 4
DEFAULT_COLOR_TYPE == 2
DEFAULT_BIT_DEPTH == 8
DEFAULT_COMPRESSION_METHOD == 0
DEFAULT_FILTER_METHOD == 0
DEFAULT_INTERLACE_METHOD == 0

\* 0xedb88320 and 0xffffffff
POLYNOMIAL == Word(60856, 33568)
ALL_ONES == Word(65535, 65535)

\* the eight steps of one entry of the table
RECURSIVE Crc32TableEntry(_, _)
Crc32TableEntry(current, bit) ==
    IF bit = 8 THEN current
    ELSE Crc32TableEntry(IF And1(current) = 1
                         THEN Xor(POLYNOMIAL, Ushr(current, 1))
                         ELSE Ushr(current, 1),
                         bit + 1)

\* the table as the loop of #getCrc32Table fills it: entry index is NewCrc32Table[index + 1]
NewCrc32Table == [k \in 1..256 |-> Ushr(Crc32TableEntry(ToWord(k - 1), 0), 0)] \o <<>>

\* #getCrc32Table
getCrc32Table(table) == IF Len(table) = 0 THEN NewCrc32Table ELSE table

\* for (const byte of buffer): st is the loop's state, the position and crc
RECURSIVE Crc32Loop(_, _, _)
Crc32Loop(table, buffer, st) ==
    IF st.i > Len(buffer) THEN st.crc
    ELSE LET index == AndFF(Xor(st.crc, ToWord(buffer[st.i])))
         IN Crc32Loop(table, buffer,
                      [i |-> st.i + 1, crc |-> Xor(table[index + 1], Ushr(st.crc, 8))])

\* #computeCRC32 returning ~crc as the complement leaves it
computeCRC32Signed(table, buffer) ==
    LET t == getCrc32Table(table)
    IN [table |-> t, crc |-> Not(Crc32Loop(t, buffer, [i |-> 1, crc |-> ALL_ONES]))]

\* #computeCRC32 building a table for itself and keeping none
computeCRC32NotCaching(table, buffer) ==
    [table |-> table,
     crc |-> Ushr(Not(Crc32Loop(NewCrc32Table, buffer, [i |-> 1, crc |-> ALL_ONES])), 0)]

\* #computeCRC32: the checksum, and the table as the call leaves it
computeCRC32(table, buffer) ==
    LET t == getCrc32Table(table)
    IN [table |-> t, crc |-> Ushr(Not(Crc32Loop(t, buffer, [i |-> 1, crc |-> ALL_ONES])), 0)]

\* buffer.write...(bytes, offset)
WriteAt(buffer, offset, bytes) ==
    [k \in 1..Len(buffer) |->
        IF k > offset /\ k <= offset + Len(bytes) THEN bytes[k - offset] ELSE buffer[k]]

\* Buffer.alloc(size)
Alloc(size) == [k \in 1..size |-> 0]

\* the fields of the header written in order into the buffer, until one throws
RECURSIVE WriteFields(_, _)
WriteFields(buffer, fields) ==
    IF fields = <<>> THEN [err |-> "", bytes |-> buffer]
    ELSE LET f == Head(fields)
         IN IF f[2].err # "" THEN [err |-> f[2].err, bytes |-> <<>>]
            ELSE WriteFields(WriteAt(buffer, f[1], f[2].bytes), Tail(fields))

\* #createIHDRBuffer with the height written before the width
createIHDRBufferHeightFirst(w, h, colorType) ==
    WriteFields(Alloc(IHDR_BYTES_LENGTH),
        << <<IHDR_INDEXES.WIDTH, writeUInt32BE(ToWord(h))>>,
           <<IHDR_INDEXES.HEIGHT, writeUInt32BE(ToWord(w))>>,
           <<IHDR_INDEXES.BIT_DEPTH, writeUInt8(DEFAULT_BIT_DEPTH)>>,
           <<IHDR_INDEXES.COLOR_TYPE, writeUInt8(colorType.n)>>,
           <<IHDR_INDEXES.COMPRESSION_METHOD, writeUInt8(DEFAULT_COMPRESSION_METHOD)>>,
           <<IHDR_INDEXES.FILTER_METHOD, writeUInt8(DEFAULT_FILTER_METHOD)>>,
           <<IHDR_INDEXES.INTERLACE_METHOD, writeUInt8(DEFAULT_INTERLACE_METHOD)>> >>)

\* #createIHDRBuffer: [err, bytes]
createIHDRBuffer(w, h, colorType) ==
    WriteFields(Alloc(IHDR_BYTES_LENGTH),
        << <<IHDR_INDEXES.WIDTH, writeUInt32BE(ToWord(w))>>,
           <<IHDR_INDEXES.HEIGHT, writeUInt32BE(ToWord(h))>>,
           <<IHDR_INDEXES.BIT_DEPTH, writeUInt8(DEFAULT_BIT_DEPTH)>>,
           <<IHDR_INDEXES.COLOR_TYPE, writeUInt8(colorType.n)>>,
           <<IHDR_INDEXES.COMPRESSION_METHOD, writeUInt8(DEFAULT_COMPRESSION_METHOD)>>,
           <<IHDR_INDEXES.FILTER_METHOD, writeUInt8(DEFAULT_FILTER_METHOD)>>,
           <<IHDR_INDEXES.INTERLACE_METHOD, writeUInt8(DEFAULT_INTERLACE_METHOD)>> >>)

\* #createChunk with the checksum taken over the payload alone
createChunkCrcOfData(table, chunkType, chunkData) ==
    LET typeBuffer == ChunkTypeBuffer[chunkType]
        length == WriteAt(Alloc(CHUNK_BYTES_SIZE), 0, writeUInt32BE(ToWord(Len(chunkData))).bytes)
        sum == computeCRC32(table, chunkData)
        crc == WriteAt(Alloc(CHUNK_BYTES_SIZE), 0, writeUInt32BE(sum.crc).bytes)
    IN [table |-> sum.table, bytes |-> length \o typeBuffer \o chunkData \o crc]

\* #createChunk: the chunk, and the checksum table as the call leaves it
createChunk(table, chunkType, chunkData) ==
    LET typeBuffer == ChunkTypeBuffer[chunkType]
        length == WriteAt(Alloc(CHUNK_BYTES_SIZE), 0, writeUInt32BE(ToWord(Len(chunkData))).bytes)
        crcBuffer == typeBuffer \o chunkData
        sum == computeCRC32(table, crcBuffer)
        crc == WriteAt(Alloc(CHUNK_BYTES_SIZE), 0, writeUInt32BE(sum.crc).bytes)
    IN [table |-> sum.table, bytes |-> length \o typeBuffer \o chunkData \o crc]

\* #addBackgroundColor replacing undefined cells and no others
addBackgroundColorOfUndefined(map, bg) ==
    [x \in 1..Len(map) |-> [y \in 1..Len(map[x]) |->
        IF map[x][y] = Undefined THEN bg ELSE map[x][y]]]

\* #addBackgroundColor
addBackgroundColor(map, bg) ==
    [x \in 1..Len(map) |-> [y \in 1..Len(map[x]) |->
        IF map[x][y] = Null THEN bg ELSE map[x][y]]]

\* #addBackgroundColor writing the background colour into the map it is given
pixelMapReadFilling(map, bg) == addBackgroundColor(map, bg)

\* the map of the canvas after #addBackgroundColor has read it: the method pushes to
\* arrays of its own (newPixelMap, newRow) and assigns nothing of pixelMap
pixelMapRead(map, bg) == map

\* pixelMap[x]![y]!: reading a cell of a missing column throws, a missing cell is undefined
ReadCell(map, x, y) ==
    IF x + 1 > Len(map) THEN [err |-> "TypeError", val |-> Undefined]
    ELSE IF y + 1 > Len(map[x + 1]) THEN [err |-> "", val |-> Undefined]
    ELSE [err |-> "", val |-> map[x + 1][y + 1]]

\* the buffers pushed for one pixel
PixelOf(map, x, y, colorType) ==
    IF ReadCell(map, x, y).err # ""
    THEN [err |-> ReadCell(map, x, y).err, bytes |-> <<>>]
    ELSE createPixelBuffer(ReadCell(map, x, y).val, colorType)

\* Buffer.concat of the results pushed in order, the first error ending the loop
RECURSIVE ConcatResults(_)
ConcatResults(results) ==
    IF results = <<>> THEN [err |-> "", bytes |-> <<>>]
    ELSE IF Head(results).err # "" THEN Head(results)
    ELSE Both(Head(results), ConcatResults(Tail(results)))

\* #computeImageBuffer reading the map row-major
computeImageBufferRowMajor(cv, colorType) ==
    LET map == addBackgroundColor(cv.pixelMap, cv.backgroundColor)
        pushed == [k \in 1..(cv.height * (cv.width + 1)) |->
                     LET y == (k - 1) \div (cv.width + 1)
                         x == ((k - 1) % (cv.width + 1)) - 1
                     IN IF x = -1 THEN [err |-> "", bytes |-> Alloc(1)]
                        ELSE PixelOf(map, y, x, colorType)]
    IN ConcatResults(pushed)

\* #computeImageBuffer: [err, bytes]
computeImageBuffer(cv, colorType) ==
    LET map == addBackgroundColor(cv.pixelMap, cv.backgroundColor)
        pushed == [k \in 1..(cv.height * (cv.width + 1)) |->
                     LET y == (k - 1) \div (cv.width + 1)
                         x == ((k - 1) % (cv.width + 1)) - 1
                     IN IF x = -1 THEN [err |-> "", bytes |-> Alloc(1)]
                        ELSE PixelOf(map, x, y, colorType)]
    IN ConcatResults(pushed)

\* #finalizeCreation with the data chunk emitted twice
finalizeCreationTwoData(table, ihdrBuffer, idatBuffer) ==
    LET ihdrChunk == createChunk(table, "IHDR", ihdrBuffer)
        idatChunk == createChunk(ihdrChunk.table, "IDAT", idatBuffer)
        iendChunk == createChunk(idatChunk.table, "IEND", Alloc(0))
    IN [table |-> iendChunk.table,
        bytes |-> PNG_SIGNATURE \o ihdrChunk.bytes \o idatChunk.bytes \o idatChunk.bytes
                  \o iendChunk.bytes]

\* #finalizeCreation: the file, and the checksum table as the call leaves it
finalizeCreation(table, ihdrBuffer, idatBuffer) ==
    LET ihdrChunk == createChunk(table, "IHDR", ihdrBuffer)
        idatChunk == createChunk(ihdrChunk.table, "IDAT", idatBuffer)
        iendChunk == createChunk(idatChunk.table, "IEND", Alloc(0))
    IN [table |-> iendChunk.table,
        bytes |-> PNG_SIGNATURE \o ihdrChunk.bytes \o idatChunk.bytes \o iendChunk.bytes]

\* what a create call leaves: its error, the bytes it returns, the buffers it gave the
\* compressor, and the checksum table
CreateResult(e, bytes, deflated, table) ==
    [err |-> e, out |-> bytes, zlibCalls |-> deflated, table |-> table]

\* createFromCanvas giving the compressor the image of a canvas it could not encode
createFromCanvasCompressingPartial(table, cv, colorMode) ==
    LET colorType == IF colorMode \in {Undefined, Null} THEN Num(DEFAULT_COLOR_TYPE)
                     ELSE colorMode
        image == computeImageBuffer(cv, colorType)
        idatBuffer == deflateSync(image.bytes)
        ihdr == createIHDRBuffer(cv.width, cv.height, colorType)
        png == finalizeCreation(table, ihdr.bytes, idatBuffer)
    IN IF image.err # "" THEN CreateResult(image.err, <<>>, <<image.bytes>>, table)
       ELSE IF ihdr.err # "" THEN CreateResult(ihdr.err, <<>>, <<image.bytes>>, table)
       ELSE CreateResult("", png.bytes, <<image.bytes>>, png.table)

createFromCanvas(table, cv, colorMode) ==
    LET colorType == IF colorMode \in {Undefined, Null} THEN Num(DEFAULT_COLOR_TYPE)
                     ELSE colorMode
        image == computeImageBuffer(cv, colorType)
        idatBuffer == deflateSync(image.bytes)
        ihdr == createIHDRBuffer(cv.width, cv.height, colorType)
        png == finalizeCreation(table, ihdr.bytes, idatBuffer)
    IN IF image.err # "" THEN CreateResult(image.err, <<>>, <<>>, table)
       ELSE IF ihdr.err # "" THEN CreateResult(ihdr.err, <<>>, <<image.bytes>>, table)
       ELSE CreateResult("", png.bytes, <<image.bytes>>, png.table)

\* createFromBuffer refusing a buffer that is not height scanlines of a filter byte
\* and width pixels
createFromBufferFitted(table, pixelBuffer, w, h, colorType) ==
    LET bytes == IF colorType.n \in DOMAIN COLOR_TYPE_BYTES
                 THEN COLOR_TYPE_BYTES[colorType.n] ELSE 0
        idatBuffer == deflateSync(pixelBuffer)
        ihdr == createIHDRBuffer(w, h, colorType)
        png == finalizeCreation(table, ihdr.bytes, idatBuffer)
    IN IF Len(pixelBuffer) # h * (1 + w * bytes)
       THEN CreateResult("RangeError", <<>>, <<>>, table)
       ELSE IF ihdr.err # "" THEN CreateResult(ihdr.err, <<>>, <<pixelBuffer>>, table)
       ELSE CreateResult("", png.bytes, <<pixelBuffer>>, png.table)

createFromBuffer(table, pixelBuffer, w, h, colorType) ==
    LET idatBuffer == deflateSync(pixelBuffer)
        ihdr == createIHDRBuffer(w, h, colorType)
        png == finalizeCreation(table, ihdr.bytes, idatBuffer)
    IN IF ihdr.err # "" THEN CreateResult(ihdr.err, <<>>, <<pixelBuffer>>, table)
       ELSE CreateResult("", png.bytes, <<pixelBuffer>>, png.table)

----------------------------------------------------------------------------
(* The state machine: the calls of a canvas and of a creator *)

ThisCanvas == Canvas(width, height, pixelMap, lastUsedColor, backgroundColor)

\* new PixelCanvas({ width: w, height: h, backgroundColor: bg }) with a colour the
\* constructor accepts, and a new PNGCreator
Construct(w, h, bg) ==
    /\ width = w
    /\ height = h
    /\ pixelMap = initPixelMap(w, h)
    /\ lastUsedColor = Num(0)
    /\ backgroundColor = validateColor(bg).val
    /\ crc32Table = <<>>
    /\ call = [op |-> "new", given |-> FALSE]
    /\ err = ""
    /\ out = <<>>
    /\ zlibCalls = <<>>
    /\ pre = ThisCanvas
    /\ suppliedColor = Num(0)
    /\ nOps = 0
    /\ heap = <<pixelMap>>
    /\ pixelMapRef = 1

\* setScale with a factor of 1 keeping the array it has
pixelMapRefAfterUnlessSame(ref, made, c, r) ==
    IF c.op = "setScale" /\ r.err = "" /\ c.scale # Num(1) THEN made + 1 ELSE ref

\* the array #pixelMap refers to after a call, made being the number of arrays made
\* before it: setScale assigns the array it got from initPixelMap, and the fills
\* assign cells of the array they have
pixelMapRefAfter(ref, made, c, r) ==
    IF c.op = "setScale" /\ r.err = "" THEN made + 1 ELSE ref

\* a call of the canvas: r is what the operation leaves, c the call
CanvasCall(r, c) ==
    /\ nOps' = nOps + 1
    /\ width' = r.canvas.width
    /\ height' = r.canvas.height
    /\ pixelMap' = r.canvas.pixelMap
    /\ lastUsedColor' = r.canvas.lastUsedColor
    /\ backgroundColor' = r.canvas.backgroundColor
    /\ call' = c
    /\ err' = r.err
    /\ out' = <<>>
    /\ zlibCalls' = <<>>
    /\ pre' = ThisCanvas
    /\ suppliedColor' = IF r.err = "" /\ c.op # "setScale" /\ c.color # Undefined
                        THEN validateColor(c.color).val
                        ELSE suppliedColor
    /\ pixelMapRef' = pixelMapRefAfter(pixelMapRef, Len(heap), c, r)
    /\ heap' = IF pixelMapRef' = pixelMapRef
               THEN [heap EXCEPT ![pixelMapRef] = r.canvas.pixelMap]
               ELSE Append(heap, r.canvas.pixelMap)
    /\ UNCHANGED crc32Table

SetPixel(x, y, color) ==
    CanvasCall(setPixel(ThisCanvas, x, y, color),
               [op |-> "setPixel", x |-> x, y |-> y, color |-> color])

SetPixels(xValues, yValues, color) ==
    CanvasCall(setPixels(ThisCanvas, xValues, yValues, color),
               [op |-> "setPixels", xValues |-> xValues, yValues |-> yValues,
                color |-> color])

SetColumn(x, color) ==
    CanvasCall(setColumn(ThisCanvas, x, color),
               [op |-> "setColumn", x |-> x, color |-> color])

SetRow(y, color) ==
    CanvasCall(setRow(ThisCanvas, y, color),
               [op |-> "setRow", y |-> y, color |-> color])

SetScale(scale) ==
    CanvasCall(setScale(ThisCanvas, scale), [op |-> "setScale", scale |-> scale])

\* a call of the creator: r is what it leaves, c the call, map the array of the
\* canvas as the call leaves it
CreatorCall(r, c, map) ==
    /\ nOps' = nOps + 1
    /\ call' = c
    /\ err' = r.err
    /\ out' = r.out
    /\ zlibCalls' = r.zlibCalls
    /\ crc32Table' = r.table
    /\ pre' = ThisCanvas
    /\ pixelMap' = map
    /\ heap' = [heap EXCEPT ![pixelMapRef] = map]
    /\ UNCHANGED <<width, height, lastUsedColor, backgroundColor, suppliedColor,
                   pixelMapRef>>

CreateFromCanvas(colorMode) ==
    CreatorCall(createFromCanvas(crc32Table, ThisCanvas, colorMode),
                [op |-> "createFromCanvas", colorMode |-> colorMode],
                pixelMapRead(pixelMap, backgroundColor))

CreateFromBuffer(pixelBuffer, w, h, colorType) ==
    CreatorCall(createFromBuffer(crc32Table, pixelBuffer, w, h, colorType),
                [op |-> "createFromBuffer", pixelBuffer |-> pixelBuffer, width |-> w,
                 height |-> h, colorType |-> colorType],
                pixelMap)

----------------------------------------------------------------------------
(* Spec: one canvas, every fill and setScale with arguments of every kind:   *)
(* coordinates below, inside and above the grid and between two cells, and  *)
(* colours omitted, valid (0x123456, a name) and invalid (-1, 0x1000000, an  *)
(* unknown name, a boolean).                                                *)

Dims == 0..MaxDim
ColorInputs ==
    {Undefined, Num(1193046), Num(16777215), Str("red"), Str("grey"), Num(-1),
     Num(16777216), NaN, Str("invalidColor"), False}
CoordInputs == {Num(-1), Num(0), Num(1), Num(MaxDim), Half(0)}
PointInputs ==
    {<<Num(0), Num(0)>>, <<Num(1), Num(0)>>, <<Num(1), Num(1)>>,
     <<Num(-1), Num(0)>>, <<Num(0), Num(-1)>>, <<Num(MaxDim), Num(0)>>,
     <<Num(0), Num(MaxDim)>>, <<Half(0), Num(0)>>, <<Num(0), Half(0)>>}
ListInputs ==
    {<< <<>>, <<Num(0)>> >>, << <<Num(0)>>, <<>> >>,
     << <<Num(0), Num(1)>>, <<Num(0), Num(1)>> >>,
     << <<Num(1)>>, <<Num(0), Num(0)>> >>,
     << <<Num(0), Num(-1)>>, <<Num(0)>> >>,
     << <<Num(0)>>, <<Num(0), Num(MaxDim)>> >>,
     << <<Num(0), Half(0)>>, <<Num(0)>> >>,
     << <<Num(0)>>, <<Num(0), Half(0)>> >>}
ScaleInputs ==
    {Num(-1), Num(0), Num(1), Num(2), Num(101), Half(0), Half(1), Half(100),
     Str("notANumber")}

Init == \E w \in Dims, h \in Dims : Construct(w, h, Str("limegreen"))

Next ==
    /\ nOps < MaxOps
    /\ \/ \E p \in PointInputs, color \in ColorInputs : SetPixel(p[1], p[2], color)
       \/ \E l \in ListInputs, color \in ColorInputs : SetPixels(l[1], l[2], color)
       \/ \E x \in CoordInputs, color \in ColorInputs : SetColumn(x, color)
       \/ \E y \in CoordInputs, color \in ColorInputs : SetRow(y, color)
       \/ \E scale \in ScaleInputs : SetScale(scale)

Spec == Init /\ [][Next]_vars

----------------------------------------------------------------------------
(* SpecSeq: longer runs of a canvas and a creator that reads it, with fewer  *)
(* arguments.                                                               *)

SeqSizes == {<<1, 1>>, <<2, 1>>, <<1, 2>>}
SeqColors == {Undefined, Num(1193046), Str("red"), Num(16777216)}
SeqScales == {Num(1), Num(2), Num(0)}
SeqModes == {Undefined, Num(6)}

InitSeq == \E size \in SeqSizes : Construct(size[1], size[2], Str("limegreen"))

NextSeq ==
    /\ nOps < MaxSeqOps
    /\ \/ \E color \in SeqColors : SetPixel(Num(0), Num(0), color)
       \/ \E color \in SeqColors : SetPixels(<<Num(0)>>, <<Num(0), Num(height - 1)>>, color)
       \/ \E color \in SeqColors : SetColumn(Num(width - 1), color)
       \/ \E color \in SeqColors : SetRow(Num(0), color)
       \/ \E scale \in SeqScales : SetScale(scale)
       \/ \E colorMode \in SeqModes : CreateFromCanvas(colorMode)

SpecSeq == InitSeq /\ [][NextSeq]_vars

----------------------------------------------------------------------------
(* SpecPng: a creator given any object with the three accessors of           *)
(* IPixelCanvas, or a buffer. The canvas variables hold what the object's    *)
(* accessors return: a map of cells that are null, undefined or a colour.    *)

CellInputs == {Null, Undefined, Num(1193046)}
BackgroundInputs == {Num(0), Num(3329330)}
ModeInputs == {Undefined, Num(0), Num(2), Num(3), Num(4), Num(6)}
BufferInputs ==
    {<< <<>>, 0, 0, Num(2)>>, << <<0, 18, 52, 86>>, 1, 1, Num(2)>>,
     << <<0, 46, 255, 0, 0, 0>>, 1, 2, Num(4)>>, << <<0, 46>>, 2, 2, Num(0)>>,
     << <<0, 7>>, 1, 1, Num(3)>>, << <<0, 1, 2, 3, 4>>, 1, 1, Num(6)>>,
     << <<0, 46>>, -1, 1, Num(0)>>, << <<0, 46>>, 1, 1, Num(256)>>}

\* the maps of a grid: every map of a grid of at most two cells; of a larger
\* grid, the maps whose columns after the first are null, colour, null, ...
MapInputs(w, h) ==
    {m \in [1..w -> [1..h -> CellInputs]] :
        \/ w * h <= 2
        \/ \A x \in 2..w : \A y \in 1..h :
              m[x][y] = IF y % 2 = 0 THEN Num(1193046) ELSE Null}

InitPng ==
    /\ width \in Dims
    /\ height \in Dims
    /\ pixelMap \in MapInputs(width, height)
    /\ lastUsedColor = Num(0)
    /\ backgroundColor \in BackgroundInputs
    /\ crc32Table = <<>>
    /\ call = [op |-> "new", given |-> FALSE]
    /\ err = ""
    /\ out = <<>>
    /\ zlibCalls = <<>>
    /\ pre = ThisCanvas
    /\ suppliedColor = Num(0)
    /\ nOps = 0
    /\ heap = <<pixelMap>>
    /\ pixelMapRef = 1

NextPng ==
    /\ nOps < MaxCreates
    /\ \/ \E colorMode \in ModeInputs : CreateFromCanvas(colorMode)
       \/ \E b \in BufferInputs : CreateFromBuffer(b[1], b[2], b[3], b[4])

SpecPng == InitPng /\ [][NextPng]_vars

----------------------------------------------------------------------------
(* SpecOwn: a canvas constructed from options of every kind, among them      *)
(* initial maps of the right and of a wrong shape and with cells of every    *)
(* kind, then fills and setScale. The arrays made are kept in heap, so that  *)
(* a reference held by the caller can be read after later calls. The sizes   *)
(* accepted are integers.                                                    *)

MaxOwnOps == 3

\* options: width, height, backgroundColor, whether pixelMap is given, pixelMap
OptionInputs ==
    {<<Num(1), Num(2), Str("limegreen"), FALSE, <<>> >>,
     <<Num(2), Num(1), Num(0), FALSE, <<>> >>,
     <<Num(0), Num(0), Num(0), FALSE, <<>> >>,
     <<Num(0), Num(2), Num(0), FALSE, <<>> >>,
     <<Num(-1), Num(1), Num(0), FALSE, <<>> >>,
     <<Num(1), Num(-1), Num(0), FALSE, <<>> >>,
     <<Str("1"), Num(1), Num(0), FALSE, <<>> >>,
     <<Half(1), Num(1), Num(0), FALSE, <<>> >>,
     <<Num(1), Half(1), Num(0), FALSE, <<>> >>,
     <<Num(1), Num(1), Num(-1), FALSE, <<>> >>,
     <<Num(1), Num(1), Str("invalidColor"), FALSE, <<>> >>,
     <<Num(0), Num(0), Num(0), TRUE, <<>> >>,
     <<Num(2), Num(1), Num(0), TRUE, << <<Num(1193046)>>, <<Undefined>> >> >>,
     <<Num(1), Num(2), Str("red"), TRUE, << <<Null, Num(255)>> >> >>,
     <<Num(2), Num(1), Num(0), TRUE, << <<Num(0)>> >> >>,
     <<Num(1), Num(1), Num(0), TRUE, << <<Num(0)>>, <<Num(0)>> >> >>,
     <<Num(2), Num(1), Num(0), TRUE, << <<Num(0)>>, <<Num(0), Num(0)>> >> >>,
     <<Num(2), Num(1), Num(0), TRUE, << <<Num(0)>>, <<>> >> >>,
     <<Num(1), Num(2), Num(0), TRUE, << <<Num(0)>> >> >>,
     <<Half(1), Num(1), Num(0), TRUE, << <<Num(0)>> >> >>,
     <<Num(1), Num(1), Num(-1), TRUE, << <<Num(0)>> >> >>,
     <<Num(1), Num(1), Num(0), TRUE, << <<Num(-1)>> >> >>,
     <<Num(1), Num(2), Num(0), TRUE, << <<Num(0), Num(16777216)>> >> >>}
OwnColors == {Undefined, Num(1193046), Num(16777216)}
OwnScales == {Num(1), Num(2), Num(3), Num(0)}

\* new PixelCanvas(options), and a new PNGCreator
ConstructWith(w, h, bg, given, map) ==
    LET r == constructor(w, h, bg, given, map)
        made == IF given THEN 1 ELSE 0
        ref == pixelMapRefOfNew(given, made)
    IN /\ width = r.canvas.width
       /\ height = r.canvas.height
       /\ pixelMap = r.canvas.pixelMap
       /\ lastUsedColor = r.canvas.lastUsedColor
       /\ backgroundColor = r.canvas.backgroundColor
       /\ crc32Table = <<>>
       /\ call = [op |-> "new", width |-> w, height |-> h, backgroundColor |-> bg,
                  given |-> given, pixelMap |-> map]
       /\ err = r.err
       /\ out = <<>>
       /\ zlibCalls = <<>>
       /\ pre = FieldInitializers
       /\ suppliedColor = Num(0)
       /\ nOps = 0
       /\ heap = (IF given THEN <<map>> ELSE <<>>)
                    \o (IF r.err = "" /\ ref > made THEN <<r.canvas.pixelMap>> ELSE <<>>)
       /\ pixelMapRef = IF r.err = "" THEN ref ELSE 0

InitOwn == \E o \in OptionInputs : ConstructWith(o[1], o[2], o[3], o[4], o[5])

\* the calls of a canvas that was constructed
NextOwn ==
    /\ nOps < MaxOwnOps
    /\ pixelMapRef # 0
    /\ \/ \E color \in OwnColors : SetPixel(Num(0), Num(0), color)
       \/ \E color \in OwnColors : SetPixels(<<Num(0)>>, <<Num(0), Num(height - 1)>>, color)
       \/ \E color \in OwnColors : SetColumn(Num(width - 1), color)
       \/ \E color \in OwnColors : SetRow(Num(0), color)
       \/ \E scale \in OwnScales : SetScale(scale)

SpecOwn == InitOwn /\ [][NextOwn]_vars

----------------------------------------------------------------------------
(* SpecOut: a creator given objects with the accessors of IPixelCanvas whose *)
(* map or background colour holds a number below 0 or above 0xFFFFFF, in a   *)
(* cell read first or last, with and without unset cells.                   *)

\* canvases: width, height, map, background colour
OutCanvasInputs ==
    {<<1, 1, << <<Num(-1)>> >>, Num(0)>>,
     <<1, 1, << <<Num(16777216)>> >>, Num(0)>>,
     <<2, 1, << <<Num(1193046)>>, <<Num(-1)>> >>, Num(0)>>,
     <<1, 2, << <<Num(16777216), Num(1193046)>> >>, Num(0)>>,
     <<2, 2, << <<Null, Num(0)>>, <<Num(0), Num(-1)>> >>, Num(255)>>,
     <<1, 1, << <<Num(1193046)>> >>, Num(-1)>>,
     <<1, 1, << <<Null>> >>, Num(-1)>>,
     <<1, 2, << <<Num(1193046), Null>> >>, Num(16777216)>>,
     <<2, 1, << <<Num(0)>>, <<Num(255)>> >>, Num(16777216)>>,
     <<0, 0, <<>>, Num(-1)>>,
     <<1, 1, << <<Null>> >>, Num(255)>>}

InitOut ==
    /\ \E c \in OutCanvasInputs :
          /\ width = c[1]
          /\ height = c[2]
          /\ pixelMap = c[3]
          /\ backgroundColor = c[4]
    /\ lastUsedColor = Num(0)
    /\ crc32Table = <<>>
    /\ call = [op |-> "new", given |-> FALSE]
    /\ err = ""
    /\ out = <<>>
    /\ zlibCalls = <<>>
    /\ pre = ThisCanvas
    /\ suppliedColor = Num(0)
    /\ nOps = 0
    /\ heap = <<pixelMap>>
    /\ pixelMapRef = 1

NextOut ==
    /\ nOps < MaxCreates
    /\ \E colorMode \in ModeInputs : CreateFromCanvas(colorMode)

SpecOut == InitOut /\ [][NextOut]_vars

----------------------------------------------------------------------------
(* SpecCrc: the checksums one creator computes, one after the other. A step  *)
(* is one #computeCRC32 of a buffer; out holds the number returned as its    *)
(* two 16-bit words, the high one first.                                    *)

MaxCrcOps == 2

\* buffers: every sequence of at most two of the bytes below, the type of the IEND
\* chunk, and the digits "123456789"
CrcBytes == {0, 1, 2, 73, 127, 128, 254, 255}
CrcInputs ==
    {<<>>} \cup {<<a>> : a \in CrcBytes} \cup {<<a, b>> : a \in CrcBytes, b \in CrcBytes}
        \cup {<<73, 69, 78, 68>>, <<49, 50, 51, 52, 53, 54, 55, 56, 57>>}

\* a new PNGCreator
InitCrc ==
    /\ width = 0
    /\ height = 0
    /\ pixelMap = <<>>
    /\ lastUsedColor = Num(0)
    /\ backgroundColor = Num(0)
    /\ crc32Table = <<>>
    /\ call = [op |-> "new", given |-> FALSE]
    /\ err = ""
    /\ out = <<>>
    /\ zlibCalls = <<>>
    /\ pre = ThisCanvas
    /\ suppliedColor = Num(0)
    /\ nOps = 0
    /\ heap = <<pixelMap>>
    /\ pixelMapRef = 1

ComputeCRC32(buffer) ==
    LET r == computeCRC32(crc32Table, buffer)
    IN /\ nOps' = nOps + 1
       /\ call' = [op |-> "computeCRC32", buffer |-> buffer]
       /\ err' = ""
       /\ out' = <<r.crc.hi, r.crc.lo>>
       /\ crc32Table' = r.table
       /\ UNCHANGED <<canvasVars, zlibCalls, pre, suppliedColor, heap, pixelMapRef>>

NextCrc ==
    /\ nOps < MaxCrcOps
    /\ \E buffer \in CrcInputs : ComputeCRC32(buffer)

SpecCrc == InitCrc /\ [][NextCrc]_vars

----------------------------------------------------------------------------
(* SpecPixel: createPixelBuffer applied once to a colour value and a mode. The  *)
(* initial state holds the arguments of the call in call, and the one step    *)
(* leaves the error thrown in err and the buffer returned in out.            *)

\* red, green and blue bytes, among them those of 0x00240c
ByteInputs == {0, 1, 12, 36, 127, 128, 255}

\* colour values: every colour of the bytes above, one between two integers, and
\* values below and above the range
PixelColorInputs ==
    {Num(r * 65536 + g * 256 + b) : r \in ByteInputs, g \in ByteInputs, b \in ByteInputs}
        \cup {Half(0), Num(-1), Half(-1), Half(16777215), Num(16777216)}

\* the modes of COLOR_TYPES and 5
PixelModeInputs == {Num(0), Num(2), Num(3), Num(4), Num(5), Num(6)}

InitPixel ==
    /\ width = 0
    /\ height = 0
    /\ pixelMap = <<>>
    /\ lastUsedColor = Num(0)
    /\ backgroundColor = Num(0)
    /\ crc32Table = <<>>
    /\ call \in {[op |-> "createPixelBuffer", colorValue |-> v, colorType |-> m] :
                    v \in PixelColorInputs, m \in PixelModeInputs}
    /\ err = ""
    /\ out = <<>>
    /\ zlibCalls = <<>>
    /\ pre = ThisCanvas
    /\ suppliedColor = Num(0)
    /\ nOps = 0
    /\ heap = <<pixelMap>>
    /\ pixelMapRef = 1

CreatePixelBuffer ==
    /\ nOps = 0
    /\ nOps' = 1
    /\ err' = createPixelBuffer(call.colorValue, call.colorType).err
    /\ out' = createPixelBuffer(call.colorValue, call.colorType).bytes
    /\ UNCHANGED <<canvasVars, crc32Table, call, zlibCalls, pre, suppliedColor, heap,
                   pixelMapRef>>

NextPixel == CreatePixelBuffer

SpecPixel == InitPixel /\ [][NextPixel]_vars

----------------------------------------------------------------------------
(* Reading a file back. A file is read as a PNG decoder reads it: the chunk  *)
(* that starts at an offset is as long as its length field says.            *)

\* the number in the four bytes after an offset, most significant byte first
U32At(bytes, offset) ==
    ((bytes[offset + 1] * 256 + bytes[offset + 2]) * 256 + bytes[offset + 3]) * 256
        + bytes[offset + 4]

\* the four bytes of a number below 2^31, most significant byte first
BE32(k) == <<k \div 16777216, (k \div 65536) % 256, (k \div 256) % 256, k % 256>>

ChunkType(bytes, offset) == SubSeq(bytes, offset + 5, offset + 8)
ChunkPayload(bytes, offset) == SubSeq(bytes, offset + 9, offset + 8 + U32At(bytes, offset))
ChunkCrc(bytes, offset) ==
    SubSeq(bytes, offset + 9 + U32At(bytes, offset), offset + 12 + U32At(bytes, offset))
ChunkEnd(bytes, offset) == offset + 12 + U32At(bytes, offset)

\* the type tags in ASCII
TagIHDR == <<73, 72, 68, 82>>
TagIDAT == <<73, 68, 65, 84>>
TagIEND == <<73, 69, 78, 68>>

\* CRC-32 as the PNG specification defines it, one bit at a time and without a table
RefShift(c) == Word(c.hi \div 2, (c.hi % 2) * 32768 + (c.lo \div 2))
RefStep(c) ==
    IF c.lo % 2 = 1
    THEN Word(BitXor(RefShift(c).hi, 60856), BitXor(RefShift(c).lo, 33568))
    ELSE RefShift(c)
RECURSIVE RefBits(_, _)
RefBits(c, k) == IF k = 0 THEN c ELSE RefBits(RefStep(c), k - 1)
RECURSIVE RefCrcLoop(_, _)
RefCrcLoop(bytes, st) ==
    IF st.i > Len(bytes) THEN st.c
    ELSE RefCrcLoop(bytes, [i |-> st.i + 1,
                            c |-> RefBits(Word(st.c.hi, BitXor(st.c.lo, bytes[st.i])), 8)])
ReferenceCrc32(bytes) ==
    LET c == RefCrcLoop(bytes, [i |-> 1, c |-> Word(65535, 65535)])
    IN <<(65535 - c.hi) \div 256, (65535 - c.hi) % 256,
         (65535 - c.lo) \div 256, (65535 - c.lo) % 256>>

\* the last call was a create call that returned a file
Created == call.op \in {"createFromCanvas", "createFromBuffer"} /\ err = ""

\* the header buffer the last create call built from its arguments
HeaderGiven ==
    IF call.op = "createFromCanvas"
    THEN createIHDRBuffer(width, height,
             IF call.colorMode = Undefined THEN Num(COLOR_TYPES.TRUE_COLOR)
             ELSE call.colorMode).bytes
    ELSE createIHDRBuffer(call.width, call.height, call.colorType).bytes

\* where the three chunks of the returned file start
IhdrAt == Len(PNG_SIGNATURE)
IdatAt == ChunkEnd(out, IhdrAt)
IendAt == ChunkEnd(out, IdatAt)

----------------------------------------------------------------------------
(* The claims *)

\* C1: the bytes either create call returns are the 8-byte signature, one IHDR chunk,
\* one IDAT chunk holding what the compressor returned, and one IEND chunk with empty
\* payload, in that order, and nothing before, between or after them.
C1_FileLayout ==
    Created =>
        /\ Len(out) >= 8 + 12
        /\ SubSeq(out, 1, 8) = <<137, 80, 78, 71, 13, 10, 26, 10>>
        /\ ChunkType(out, IhdrAt) = TagIHDR
        /\ Len(out) >= IdatAt + 12
        /\ ChunkType(out, IdatAt) = TagIDAT
        /\ Len(zlibCalls) = 1
        /\ ChunkPayload(out, IdatAt) = deflateSync(zlibCalls[1])
        /\ Len(out) >= IendAt + 12
        /\ ChunkType(out, IendAt) = TagIEND
        /\ U32At(out, IendAt) = 0
        /\ Len(out) = ChunkEnd(out, IendAt)

\* a 2x2 canvas has been written to a file by a creator's second call
C1_Witness ==
    /\ Created
    /\ call.op = "createFromCanvas"
    /\ width = 2 /\ height = 2
    /\ nOps = 2
    /\ Len(out) > 8 + 3 * 12 + 13

\* C2: every chunk of a returned file is the big-endian length of its payload, its type
\* tag, the payload, and the big-endian CRC-32 of the tag followed by the payload (the
\* length field not covered), so the chunk is 12 bytes longer than its payload.
C2_ChunkLayout ==
    Created =>
        \A c \in {<<IhdrAt, TagIHDR, HeaderGiven>>,
                  <<IdatAt, TagIDAT, deflateSync(zlibCalls[1])>>,
                  <<IendAt, TagIEND, <<>> >>} :
            LET chunk == SubSeq(out, c[1] + 1, ChunkEnd(out, c[1]))
            IN /\ chunk = BE32(Len(c[3])) \o c[2] \o c[3] \o ReferenceCrc32(c[2] \o c[3])
               /\ Len(chunk) = Len(c[3]) + 12

\* a file whose data chunk has a payload of more than 20 bytes
C2_Witness ==
    /\ Created
    /\ Len(ChunkPayload(out, IdatAt)) > 20
    /\ ChunkCrc(out, IdatAt) # <<0, 0, 0, 0>>

\* the mode a createFromCanvas call encodes with, and the width of a pixel in it
ModeUsed == IF call.colorMode = Undefined THEN Num(2) ELSE call.colorMode
ByteWidth == COLOR_TYPE_BYTES[ModeUsed.n]

\* the last call was a createFromCanvas in one of the four modes, and returned a file
CanvasCreated ==
    /\ call.op = "createFromCanvas"
    /\ err = ""
    /\ ModeUsed \in {Num(0), Num(2), Num(4), Num(6)}

\* in the stream given to the compressor: where scanline y starts, and the bytes of
\* the pixel of column x in it (x and y from 0)
ScanlineAt(y) == y * (1 + width * ByteWidth)
PixelAt(x, y) ==
    SubSeq(zlibCalls[1], ScanlineAt(y) + 1 + x * ByteWidth + 1,
           ScanlineAt(y) + 1 + (x + 1) * ByteWidth)

\* C4: a cell of the map of any IPixelCanvas that is undefined is written by
\* createFromCanvas as the background colour, in every mode.
C4_UndefinedIsBackground ==
    CanvasCreated =>
        \A x \in 0..(width - 1), y \in 0..(height - 1) :
            pixelMap[x + 1][y + 1] = Undefined =>
                PixelAt(x, y) = createPixelBuffer(backgroundColor, ModeUsed).bytes

\* C5: the stream given to the compressor is height scanlines in order, scanline y a
\* byte 0 and then the encodings of map[0][y], map[1][y], ... of the column-major map;
\* it is height * (1 + width * byteWidth) bytes long.
C5_RawStream ==
    CanvasCreated =>
        /\ Len(zlibCalls) = 1
        /\ Len(zlibCalls[1]) = height * (1 + width * ByteWidth)
        /\ \A y \in 0..(height - 1) :
            /\ zlibCalls[1][ScanlineAt(y) + 1] = 0
            /\ \A x \in 0..(width - 1) :
                PixelAt(x, y) =
                    createPixelBuffer(addBackgroundColor(pixelMap, backgroundColor)[x + 1][y + 1],
                                      ModeUsed).bytes

\* a 2x2 map whose cells (0,1) and (1,0) are encoded differently has been written
C5_Witness ==
    /\ CanvasCreated
    /\ width = 2 /\ height = 2
    /\ PixelAt(0, 1) # PixelAt(1, 0)

C3_UnsetIsBackground ==
    CanvasCreated =>
        \A x \in 0..(width - 1), y \in 0..(height - 1) :
            LET cell == pixelMap[x + 1][y + 1]
            IN /\ cell = Null \/ cell.t = "number"
               /\ cell = Null =>
                    PixelAt(x, y) = createPixelBuffer(backgroundColor, ModeUsed).bytes
               /\ cell # Null => PixelAt(x, y) = createPixelBuffer(cell, ModeUsed).bytes

\* a canvas with a set cell and an unset cell has been scaled and then written
C3_Witness ==
    /\ CanvasCreated
    /\ nOps = 3
    /\ width = 4
    /\ \E x \in 1..width, y \in 1..height : pixelMap[x][y] = Null
    /\ \E x \in 1..width, y \in 1..height : pixelMap[x][y] = Num(1193046)

\* the fill operations, and the last call was one
FillOps == {"setPixel", "setPixels", "setColumn", "setRow"}
Filled == call.op \in FillOps

\* the coordinates the last fill was asked to write
Targets ==
    CASE call.op = "setPixel" -> {<<call.x, call.y>>}
      [] call.op = "setPixels" ->
            {<<call.xValues[i], call.yValues[j]>> :
                i \in 1..Len(call.xValues), j \in 1..Len(call.yValues)}
      [] call.op = "setColumn" -> {<<call.x, Num(j)>> : j \in 0..(pre.height - 1)}
      [] call.op = "setRow" -> {<<Num(i), call.y>> : i \in 0..(pre.width - 1)}

\* the colour the last fill was asked to write: the one given, resolved, or the cursor
ColorAsked ==
    IF call.color = Undefined THEN pre.lastUsedColor
    ELSE IF call.color.t = "string" THEN Num(COLORS[call.color.s])
    ELSE call.color

\* a coordinate that is not within 0..size-1 (v.n + v.h is the least integer >= v)
OutsideGrid(v, size) == v.n < 0 \/ v.n + v.h > size - 1

\* the colour given is one the canvas refuses
ColorRefused == call.color # Undefined /\ validateColor(call.color).err # ""

\* C7: setPixels is all-or-nothing: with an x outside [0,width), a y outside
\* [0,height) or an invalid colour it fails, and a failing call changes no cell and
\* not the cursor; otherwise every cell (x,y), x of xs and y of ys, holds the resolved
\* colour afterwards.
C7_SetPixelsAllOrNothing ==
    call.op = "setPixels" =>
        LET refused ==
                \/ \E i \in 1..Len(call.xValues) : OutsideGrid(call.xValues[i], pre.width)
                \/ \E j \in 1..Len(call.yValues) : OutsideGrid(call.yValues[j], pre.height)
                \/ ColorRefused
        IN /\ refused => err # ""
           /\ err # "" => pixelMap = pre.pixelMap /\ lastUsedColor = pre.lastUsedColor
           /\ ~refused =>
                \A i \in 1..Len(call.xValues), j \in 1..Len(call.yValues) :
                    LET x == call.xValues[i]
                        y == call.yValues[j]
                    IN IsInteger(x) /\ IsInteger(y) =>
                          pixelMap[x.n + 1][y.n + 1] = ColorAsked

\* C8: a fill that succeeds changes exactly the cells it was asked to write, and no
\* fill changes the width, the height or the background colour.
C8_FillFrame ==
    Filled =>
        /\ width = pre.width
        /\ height = pre.height
        /\ backgroundColor = pre.backgroundColor
        /\ err = "" =>
             pixelMap = [x \in 1..width |-> [y \in 1..height |->
                            IF <<Num(x - 1), Num(y - 1)>> \in Targets THEN ColorAsked
                            ELSE pre.pixelMap[x][y]]]

\* a row of a 2x2 canvas has been set, the other row holding something else
C8_Witness ==
    /\ call.op = "setRow"
    /\ err = ""
    /\ width = 2 /\ height = 2
    /\ call.y = Num(1)
    /\ pixelMap[1][2] = Num(1193046)
    /\ pixelMap[1][1] = Num(COLORS["red"])
    /\ pixelMap[2][1] = Null

\* C9: a setPixel, setColumn or setRow call that fails leaves the map, the size, the
\* background colour and the cursor as they were before the call.
C9_FailedFillChangesNothing ==
    (call.op \in {"setPixel", "setColumn", "setRow"} /\ err # "") => ThisCanvas = pre

\* a setColumn with a colour was refused for its coordinate on a canvas already drawn on
C9_Witness ==
    /\ call.op = "setColumn"
    /\ err = "RangeError"
    /\ call.color = Str("red")
    /\ call.x = Num(MaxDim)
    /\ lastUsedColor = Num(1193046)
    /\ \E x \in 1..width, y \in 1..height : pixelMap[x][y] = Num(1193046)

\* C10: a fill called without a colour writes the colour resolved by the most recent
\* successful fill that supplied one, or 0 if none has, whatever setScale calls and
\* failed calls came between; the cursor always holds that colour.
C10_OmittedColorIsLastSupplied ==
    /\ lastUsedColor = suppliedColor
    /\ (Filled /\ err = "" /\ call.color = Undefined) =>
          \A t \in Targets : pixelMap[t[1].n + 1][t[2].n + 1] = suppliedColor

\* a colour was supplied, the canvas scaled, and a fill without a colour wrote it
C10_Witness ==
    /\ Filled /\ err = "" /\ call.color = Undefined
    /\ nOps = 3
    /\ width = 4
    /\ suppliedColor = Num(COLORS["red"])
    /\ \E x \in 1..width, y \in 1..height : pixelMap[x][y] = Null

\* the scales from -2 to 103 that setScale accepts, on a canvas without cells
ScalesAccepted ==
    {f \in -2..103 : setScale(Canvas(0, 0, <<>>, Num(0), Num(0)), Num(f)).err = ""}

\* C11: setScale(f) of a w x h canvas, f an integer of [1,100], leaves size (w*f, h*f)
\* and in each cell (x*f+i, y*f+j), 0 <= i,j < f, the value cell (x,y) had, unset
\* cells staying unset; every cell of the new map is in such a block.
C11_ScaleReplicates ==
    (call.op = "setScale" /\ err = "") =>
        LET f == call.scale.n
        IN /\ width = pre.width * f
           /\ height = pre.height * f
           /\ Len(pixelMap) = width
           /\ \A X \in 1..width :
                /\ Len(pixelMap[X]) = height
                /\ \A Y \in 1..height :
                     pixelMap[X][Y] = pre.pixelMap[((X - 1) \div f) + 1][((Y - 1) \div f) + 1]

\* a 2x2 canvas with a set and an unset cell has been scaled by 2
C11_Witness ==
    /\ call.op = "setScale" /\ err = ""
    /\ call.scale = Num(2)
    /\ pre.width = 2 /\ pre.height = 2
    /\ pre.pixelMap[1][1] = Num(1193046)
    /\ pre.pixelMap[2][2] = Null
    /\ pixelMap[2][2] = Num(1193046)
    /\ pixelMap[3][3] = Null

\* C12: setScale(f) succeeds exactly when f is an integer of [1,100]; a number below 1
\* or above 100 fails with RangeError, a non-number or a non-integer within the
\* interval with TypeError; a failing call leaves width, height, map and cursor as
\* they were.
C12_ScaleErrors ==
    /\ ScalesAccepted = 1..100
    /\ call.op = "setScale" =>
         LET f == call.scale
             isNumber == f.t = "number"
             outside == isNumber /\ (f.n < 1 \/ f.n + f.h > 100)
         IN /\ err = "" <=> (isNumber /\ f.h = 0 /\ ~outside)
            /\ outside => err = "RangeError"
            /\ (~isNumber \/ (f.h = 1 /\ ~outside)) => err = "TypeError"
            /\ err # "" => ThisCanvas = pre

\* setScale(0.5) has been refused on a canvas already drawn on
C12_Witness ==
    /\ call.op = "setScale"
    /\ call.scale = Half(0)
    /\ err = "RangeError"
    /\ nOps = 2
    /\ \E x \in 1..width, y \in 1..height : pixelMap[x][y] = Num(1193046)

\* colour resolution of values of every kind: the names of the table and its synonyms,
\* the ends of the interval and the numbers next to them, and values of other kinds
ColorsResolved ==
    /\ \A name \in DOMAIN COLORS :
          validateColor(Str(name)) = [err |-> "", val |-> Num(COLORS[name])]
    /\ \A pair \in {<<"gray", "grey">>, <<"darkgray", "darkgrey">>, <<"dimgray", "dimgrey">>,
                    <<"lightgray", "lightgrey">>, <<"slategray", "slategrey">>,
                    <<"darkslategray", "darkslategrey">>,
                    <<"lightslategray", "lightslategrey">>, <<"aqua", "cyan">>,
                    <<"fuchsia", "magenta">>} :
          validateColor(Str(pair[1])) = validateColor(Str(pair[2]))
    /\ \A name \in {"", "Red", "toString", "length", "0"} :
          validateColor(Str(name)).err = "ReferenceError"
    /\ \A v \in {Num(0), Num(1), Half(0), Num(16777214), Num(16777215)} :
          validateColor(v) = [err |-> "", val |-> v]
    /\ \A v \in {Num(-1), Half(-1), Half(16777215), Num(16777216)} :
          validateColor(v).err = "RangeError"
    /\ \A v \in {False, Null, Undefined} : validateColor(v).err = "TypeError"

\* a coordinate that is an index of a grid side, and the last fill was given only such
InGrid(v, size) == IsInteger(v) /\ v.n >= 0 /\ v.n < size
TargetsInGrid ==
    CASE call.op = "setPixel" -> InGrid(call.x, pre.width) /\ InGrid(call.y, pre.height)
      [] call.op = "setPixels" ->
            /\ \A i \in 1..Len(call.xValues) : InGrid(call.xValues[i], pre.width)
            /\ \A j \in 1..Len(call.yValues) : InGrid(call.yValues[j], pre.height)
      [] call.op = "setColumn" -> InGrid(call.x, pre.width)
      [] call.op = "setRow" -> InGrid(call.y, pre.height)

\* a number of [0,0xFFFFFF]: v.n + v.h is the least integer >= v; NaN is in no interval
InInterval(v) == v # NaN /\ v.n >= 0 /\ v.n + v.h <= 16777215

\* C13: colour resolution, of the constructor's backgroundColor and of every fill: a
\* name of the table resolves to the table's value (synonyms to the same value), any
\* other string fails with ReferenceError, a value that is neither string nor number
\* with TypeError, a number outside [0,0xFFFFFF] with RangeError, and a number inside
\* it is returned unchanged.
C13_ColorResolution ==
    /\ ColorsResolved
    /\ backgroundColor = Num(COLORS["limegreen"])
    /\ (Filled /\ call.color # Undefined /\ TargetsInGrid) =>
         LET c == call.color
         IN /\ (c.t = "string" /\ c.s \in DOMAIN COLORS) =>
                  err = "" /\ lastUsedColor = Num(COLORS[c.s])
            /\ (c.t = "string" /\ c.s \notin DOMAIN COLORS) => err = "ReferenceError"
            /\ c.t \notin {"string", "number"} => err = "TypeError"
            /\ (c.t = "number" /\ ~InInterval(c)) => err = "RangeError"
            /\ (c.t = "number" /\ InInterval(c)) => err = "" /\ lastUsedColor = c
            /\ err = "" => \A t \in Targets : pixelMap[t[1].n + 1][t[2].n + 1] = lastUsedColor

\* a row has been set to grey, the synonym of gray
C13_Witness ==
    /\ call.op = "setRow" /\ err = ""
    /\ call.color = Str("grey")
    /\ width = 2
    /\ pixelMap[2][call.y.n + 1] = Num(COLORS["gray"])
    /\ nOps = 2

\* createPixelBuffer has been applied, and the arguments it was given
PixelCalled == call.op = "createPixelBuffer" /\ nOps = 1
ColorGiven == call.colorValue
ModeGiven == call.colorType
SupportedModes == {Num(0), Num(2), Num(4), Num(6)}

\* C14: createPixelBuffer returns 1 byte in mode 0, 3 bytes in mode 2, 2 bytes in
\* mode 4 and 4 bytes in mode 6, for every colour value of [0,0xFFFFFF].
C14_ByteWidths ==
    (PixelCalled /\ InInterval(ColorGiven) /\ ModeGiven \in SupportedModes) =>
        /\ err = ""
        /\ Len(out) = CASE ModeGiven = Num(0) -> 1
                        [] ModeGiven = Num(2) -> 3
                        [] ModeGiven = Num(4) -> 2
                        [] ModeGiven = Num(6) -> 4

\* white has been encoded in mode 4
C14_Witness ==
    /\ PixelCalled
    /\ ColorGiven = Num(16777215)
    /\ ModeGiven = Num(4)
    /\ out = <<255, 255>>

\* C15: in modes 4 and 6 the last byte of the encoding is 0 exactly when the colour
\* value is 0, and 255 for every other colour value; the bytes before it are the
\* encoding of the colour in mode 0 and mode 2.
C15_AlphaByte ==
    (PixelCalled /\ InInterval(ColorGiven) /\ ModeGiven \in {Num(4), Num(6)}) =>
        /\ err = ""
        /\ Len(out) >= 1
        /\ out[Len(out)] = 0 <=> ColorGiven = Num(0)
        /\ ColorGiven # Num(0) => out[Len(out)] = 255
        /\ SubSeq(out, 1, Len(out) - 1) =
              createPixelBuffer(ColorGiven, Num(ModeGiven.n - 4)).bytes

\* the colour 1 has been encoded in mode 6
C15_Witness ==
    /\ PixelCalled
    /\ ColorGiven = Num(1)
    /\ ModeGiven = Num(6)
    /\ out = <<0, 0, 1, 255>>

\* a colour value below 0 or above 0xFFFFFF
ColorOutOfRange == ColorGiven.n < 0 \/ ColorGiven.n + ColorGiven.h > 16777215

\* C16: createPixelBuffer checks the colour value's range before anything else: a
\* colour value that is negative or greater than 0xFFFFFF fails with RangeError for
\* every mode value, those outside the four supported ones included.
C16_RangeCheckFirst ==
    (PixelCalled /\ ColorOutOfRange) => err = "RangeError"

\* C16, amended: a colour value that is negative or greater than 0xFFFFFF fails with
\* RangeError in each of the modes 0, 2, 4 and 6; with any other mode value the call
\* fails with TypeError, the mode being looked at before the colour.
C16_RangeCheckInSupportedModes ==
    (PixelCalled /\ ColorOutOfRange) =>
        /\ out = <<>>
        /\ ModeGiven \in SupportedModes => err = "RangeError"
        /\ ModeGiven \notin SupportedModes => err = "TypeError"

\* 0xFFFFFF + 0.5 has been refused in mode 4
C16_Witness ==
    /\ PixelCalled
    /\ ColorGiven = Half(16777215)
    /\ ModeGiven = Num(4)
    /\ err = "RangeError"

\* C17: createPixelBuffer fails with TypeError and returns nothing for every mode
\* value other than 0, 2, 4 and 6, mode 3 among them.
C17_UnsupportedMode ==
    (PixelCalled /\ ModeGiven \notin SupportedModes) => err = "TypeError" /\ out = <<>>

\* a valid colour has been refused in mode 3
C17_Witness ==
    /\ PixelCalled
    /\ ModeGiven = Num(3)
    /\ ColorGiven = Num(255)
    /\ err = "TypeError"

\* the red, green and blue bytes of the colour given
RedGiven == (ColorGiven.n \div 65536) % 256
GreenGiven == (ColorGiven.n \div 256) % 256
BlueGiven == ColorGiven.n % 256

\* C18: in mode 0 the sample is 0.299*R + 0.587*G + 0.114*B rounded to the nearest
\* integer (a half upwards); it is in 0..255, and for R = G = B = v it is v.
C18_GreyscaleRounding ==
    (PixelCalled /\ InInterval(ColorGiven) /\ ModeGiven = Num(0)) =>
        /\ out = <<(299 * RedGiven + 587 * GreenGiven + 114 * BlueGiven + 500) \div 1000>>
        /\ out[1] \in 0..255
        /\ (RedGiven = GreenGiven /\ GreenGiven = BlueGiven) => out[1] = RedGiven

\* C19: in mode 2 the bytes of a colour value v are (v >> 16) & 0xFF, (v >> 8) & 0xFF
\* and v & 0xFF in that order, and read back as a big-endian 24-bit number they are v.
C19_TruecolorRoundTrip ==
    (PixelCalled /\ InInterval(ColorGiven) /\ IsInteger(ColorGiven) /\ ModeGiven = Num(2)) =>
        /\ out = <<RedGiven, GreenGiven, BlueGiven>>
        /\ out[1] * 65536 + out[2] * 256 + out[3] = ColorGiven.n

\* 0x0c247f has been encoded in mode 2
C19_Witness ==
    /\ PixelCalled
    /\ ColorGiven = Num(795775)
    /\ ModeGiven = Num(2)
    /\ out = <<12, 36, 127>>

\* the last call was createFromBuffer
BufferCalled == call.op = "createFromBuffer"

\* the number of bytes a width x height image of the call's mode takes, with and
\* without a filter byte per scanline
PixelBytes ==
    IF call.colorType.n \in DOMAIN COLOR_TYPE_BYTES
    THEN COLOR_TYPE_BYTES[call.colorType.n] ELSE 0
LengthsFitting ==
    {call.height * (1 + call.width * PixelBytes), call.width * call.height * PixelBytes,
     call.width * call.height * call.colorType.n}

\* C20: createFromBuffer fails only when the width, the height or the mode does not
\* fit its header field, whatever the length of the buffer; when it returns, the
\* compressor was given exactly the supplied bytes, the IDAT payload is its output
\* for them, and the IHDR payload carries the supplied width, height and mode.
C20_BufferVerbatim ==
    BufferCalled =>
        /\ err = "" <=> /\ call.width >= 0
                        /\ call.height >= 0
                        /\ call.colorType.n \in 0..255
        /\ zlibCalls = <<call.pixelBuffer>>
        /\ err = "" =>
            /\ ChunkPayload(out, IdatAt) = deflateSync(call.pixelBuffer)
            /\ ChunkPayload(out, IhdrAt) =
                  BE32(call.width) \o BE32(call.height)
                  \o <<8, call.colorType.n, 0, 0, 0>>

\* a buffer of two bytes has been written as a 2x2 greyscale image
C20_Witness ==
    /\ BufferCalled
    /\ err = ""
    /\ call.width = 2 /\ call.height = 2 /\ call.colorType = Num(0)
    /\ Len(call.pixelBuffer) \notin LengthsFitting

\* a PixelCanvas exists: its constructor returned
Constructed == pixelMapRef # 0

\* the last call was the constructor, given an initial map
NewWithMap == call.op = "new" /\ call.given

\* the map has w columns of h cells each
HasShape(map, w, h) ==
    /\ Num(Len(map)) = w
    /\ \A x \in 1..Len(map) : Num(Len(map[x])) = h

\* C21: the map of a canvas that exists has width columns of height cells each, after
\* the constructor (given an initial map or not) and after every fill and setScale;
\* the constructor given numbers as sizes and an initial map that has not that
\* shape fails with RangeError.
C21_MapShape ==
    /\ Constructed => HasShape(pixelMap, Num(width), Num(height))
    /\ (/\ NewWithMap
        /\ TypeOf(call.width) = "number" /\ TypeOf(call.height) = "number"
        /\ ~HasShape(call.pixelMap, call.width, call.height))
           => err = "RangeError"

\* a canvas given a 1x2 map has been scaled by 2
C21_Witness ==
    /\ Constructed
    /\ call.op = "setScale" /\ err = ""
    /\ heap[1] = << <<Null, Num(255)>> >>
    /\ width = 2 /\ height = 4

\* a cell is unset or a colour value of the range
CellInRange(cell) == cell \in {Null, Undefined} \/ (cell.t = "number" /\ InInterval(cell))

\* C22: every cell of the map of a canvas that exists, one constructed with an initial
\* map included, is unset or a value in [0, 0xFFFFFF], and the background colour is in
\* [0, 0xFFFFFF].
C22_ValuesInRange ==
    Constructed =>
        /\ \A x \in 1..Len(pixelMap) : \A y \in 1..Len(pixelMap[x]) :
              CellInRange(pixelMap[x][y])
        /\ backgroundColor.t = "number" /\ InInterval(backgroundColor)

\* a canvas has been constructed with an initial map
C22_Witness ==
    /\ Constructed
    /\ NewWithMap
    /\ call.pixelMap # <<>>

\* the last call was a checksum computation
CrcCalled == call.op = "computeCRC32"

\* a pair of words is an unsigned 32-bit number
IsUint32(a) == a.hi \in 0..65535 /\ a.lo \in 0..65535

\* the four bytes of an unsigned pair of words
WordBytes(a) == <<a.hi \div 256, a.hi % 256, a.lo \div 256, a.lo % 256>>

\* C23: the number #computeCRC32 returns for a buffer is the CRC-32 computed bit by
\* bit (polynomial 0xEDB88320 reflected, all ones at the start, complemented at the
\* end), entry k of the table is k taken through the eight bit steps, and the entries
\* and the number returned are in [0, 2^32 - 1].
C23_TableDrivenIsBitwise ==
    CrcCalled =>
        /\ Len(crc32Table) = 256
        /\ \A k \in 0..255 :
              /\ IsUint32(crc32Table[k + 1])
              /\ crc32Table[k + 1] = RefBits(Word(0, k), 8)
        /\ IsUint32(Word(out[1], out[2]))
        /\ WordBytes(Word(out[1], out[2])) = ReferenceCrc32(call.buffer)

\* the checksum of "123456789" has been computed: 0xCBF43926, whose complement as a
\* signed number is negative
C23_Witness ==
    /\ CrcCalled
    /\ call.buffer = <<49, 50, 51, 52, 53, 54, 55, 56, 57>>
    /\ out = <<52212, 14630>>

\* the table is built and the number returned is the one a new creator returns
CrcOfNewCreator ==
    CrcCalled =>
        /\ Len(crc32Table) = 256
        /\ Word(out[1], out[2]) = computeCRC32(<<>>, call.buffer).crc
        /\ call.buffer = <<73, 69, 78, 68>> => out = <<44610, 24706>>

\* C24: the first checksum computation of a creator builds the table of 256 entries
\* and no later one changes it; the checksum of a buffer (0xAE426082 for the type of
\* IEND and no payload) is the same whatever was computed before.
C24_TableBuiltOnce ==
    /\ [](CrcOfNewCreator)
    /\ [][crc32Table # <<>> => crc32Table' = crc32Table]_vars

\* the checksum of IEND has been computed after another checksum
C24_Witness ==
    /\ CrcCalled
    /\ nOps = 2
    /\ call.buffer = <<73, 69, 78, 68>>
    /\ out = <<44610, 24706>>

\* an alpha mode has encoded a colour value of the range
AlphaEncoded ==
    /\ PixelCalled
    /\ ModeGiven \in {Num(4), Num(6)}
    /\ InInterval(ColorGiven)
    /\ err = ""

\* the buffer returned is a black pixel that is opaque
OpaqueBlack == out \in {<<0, 255>>, <<0, 0, 0, 255>>}

\* C25 as stated: in modes 4 and 6 no colour value in [0, 0xFFFFFF] is encoded as
\* colour samples that are all 0 with an alpha byte of 0xFF.
C25_NoOpaqueBlack == AlphaEncoded => ~OpaqueBlack

\* C25 amended: for integer colour values, mode 6 never gives 00 00 00 FF, and mode 4
\* gives 00 FF exactly for the colours other than 0 whose weighted sum
\* 0.299 R + 0.587 G + 0.114 B is below one half.
C25_OpaqueBlackOnlyDarkGrey ==
    (AlphaEncoded /\ IsInteger(ColorGiven)) =>
        /\ ModeGiven = Num(6) => ~OpaqueBlack
        /\ ModeGiven = Num(4) =>
              (OpaqueBlack <=> /\ ColorGiven # Num(0)
                               /\ 299 * RedGiven + 587 * GreenGiven + 114 * BlueGiven < 500)

\* the colour 0x000001 has been encoded in mode 4 as an opaque black
C25_Witness ==
    /\ AlphaEncoded
    /\ ColorGiven = Num(1)
    /\ ModeGiven = Num(4)
    /\ out = <<0, 255>>

\* what the calls do to the arrays: a fill and a setScale that fails keep the array
\* of the canvas, a setScale that returns makes a new one, and an array that is not
\* the one of the canvas after the call is left as it was
ArraysStep ==
    /\ (call'.op \in FillOps \/ (call'.op = "setScale" /\ err' # ""))
          => pixelMapRef' = pixelMapRef /\ Len(heap') = Len(heap)
    /\ (call'.op = "setScale" /\ err' = "")
          => pixelMapRef' = Len(heap) + 1 /\ Len(heap') = Len(heap) + 1
    /\ \A r \in DOMAIN heap : r # pixelMapRef' => heap'[r] = heap[r]

\* the array of the canvas holds the map the canvas reads, and it is the initial map
\* when the constructor was given one
ArrayIsLive ==
    Constructed =>
        /\ heap[pixelMapRef] = pixelMap
        /\ NewWithMap => pixelMapRef = 1 /\ heap[1] = call.pixelMap

\* C26: the array given to the constructor, and the one getPixelMap returns, is the
\* one the fills write to, so every fill shows through it until a setScale returns;
\* a setScale that returns (with factor 1 too) makes the canvas write to a new array,
\* and the array it had is never written again.
C26_LiveUntilScaled ==
    /\ [](ArrayIsLive)
    /\ [][ArraysStep]_vars

\* a canvas given a map was scaled by 1 and then filled: the map given is as it was
C26_Witness ==
    /\ Constructed
    /\ call.op = "setPixel" /\ err = ""
    /\ Len(heap) = 2 /\ pixelMapRef = 2
    /\ heap[1] = << <<Null, Num(255)>> >>
    /\ heap[2] = << <<Num(1193046), Num(255)>> >>

\* the last call was createFromCanvas, whether it returned or threw
CanvasRead == call.op = "createFromCanvas"

\* the canvas and its array are as they were when the call started
CanvasAsBefore == CanvasRead => ThisCanvas = pre /\ heap[pixelMapRef] = pre.pixelMap

\* a call of createFromCanvas right after one with the same mode ends as that one
SameModeSameEnd ==
    (CanvasRead /\ call'.op = "createFromCanvas" /\ call'.colorMode = call.colorMode)
        => out' = out /\ err' = err

\* C27: createFromCanvas leaves the canvas as it was, whether it returns or fails: the
\* map with its unset cells, the size, the background colour and the cursor; two calls
\* one after the other with the same mode return the same bytes.
C27_CreateLeavesCanvas ==
    /\ [](CanvasAsBefore)
    /\ [][SameModeSameEnd]_vars

\* a canvas with an unset cell has been written by the second call of a creator
C27_Witness ==
    /\ CanvasRead
    /\ err = ""
    /\ nOps = 2
    /\ width = 1 /\ height = 1
    /\ pixelMap[1][1] = Null

\* a number below 0 or above 0xFFFFFF
OutOfRange(v) == v.t = "number" /\ v # NaN /\ (v.n < 0 \/ v.n + v.h > 16777215)

\* the cells of the canvas
Cells == {pixelMap[x][y] : x \in 1..width, y \in 1..height}

\* a cell is out of range, or the background colour is
SomeOutOfRange == (\E cell \in Cells : OutOfRange(cell)) \/ OutOfRange(backgroundColor)

\* a cell is out of range, or the background colour is and a cell is unset
SomeEncodedOutOfRange ==
    \/ \E cell \in Cells : OutOfRange(cell)
    \/ OutOfRange(backgroundColor) /\ Null \in Cells

\* the call threw a RangeError, gave the compressor nothing and returned nothing
RangeErrorOnly == err = "RangeError" /\ zlibCalls = <<>> /\ out = <<>>

EmptyFill ==
    /\ Filled
    /\ err = ""
    /\ call.color # Undefined
    /\ CASE call.op = "setPixels" -> call.xValues = <<>> \/ call.yValues = <<>>
         [] call.op = "setRow" -> pre.width = 0
         [] call.op = "setColumn" -> pre.height = 0
         [] OTHER -> FALSE

\* such a fill changed no cell and left its colour in the cursor
EmptyFillMovesCursor == EmptyFill => pixelMap = pre.pixelMap /\ lastUsedColor = ColorAsked

\* the fill that follows such a fill and is given no colour writes the colour of that
\* fill
NextFillUsesIt ==
    (EmptyFill /\ call'.op \in FillOps /\ call'.color = Undefined /\ err' = "") =>
        /\ lastUsedColor' = ColorAsked
        /\ \A x \in 1..width, y \in 1..height :
              pixelMap'[x][y] # pixelMap[x][y] => pixelMap'[x][y] = ColorAsked

\* C29: a fill that returns without writing a cell still moves the cursor: setPixels
\* with an empty list of x or of y, setRow on a canvas of width 0 and setColumn on one
\* of height 0, given a valid colour c, change no cell and make c the colour the next
\* fill without a colour writes.
C29_EmptyFillSetsCursor ==
    /\ [](EmptyFillMovesCursor)
    /\ [][NextFillUsesIt]_vars

\* setPixels with no x has returned and the cursor is the colour it was given
C29_Witness ==
    /\ EmptyFill
    /\ call.op = "setPixels" /\ call.xValues = <<>>
    /\ call.color = Num(1193046)
    /\ lastUsedColor = Num(1193046)
    /\ pre.lastUsedColor = Num(0)
    /\ width = 2 /\ height = 2

\* two calls of setScale, one right after the other, have both returned
ScaledTwice == call.op = "setScale" /\ err = "" /\ call'.op = "setScale" /\ err' = ""

\* the canvas after the second is the one a single setScale by the product of the two
\* factors makes of the canvas the first started from
ScalesCompose ==
    ScaledTwice =>
        LET once == setScale(pre, Num(call.scale.n * call'.scale.n))
        IN /\ once.err = ""
           /\ width' = once.canvas.width
           /\ height' = once.canvas.height
           /\ pixelMap' = once.canvas.pixelMap
           /\ lastUsedColor' = once.canvas.lastUsedColor
           /\ backgroundColor' = once.canvas.backgroundColor

\* C30: setScale(a) followed by setScale(b), for integers a and b from 1 with a * b at
\* most 100, leaves the canvas with the size and the cells that setScale(a * b) gives
\* the canvas they started from.
C30_ScalesCompose == [][ScalesCompose]_vars

\* a 1x2 canvas with a set and an unset cell has been scaled by 2 twice
C30_Witness ==
    /\ call.op = "setScale" /\ err = "" /\ call.scale = Num(2)
    /\ width = 4 /\ height = 8
    /\ pre.width = 2
    /\ pixelMap[1][1] = Null
    /\ pixelMap[4][8] = Num(255)
====
